---- MODULE Spec2Model ----
(***************************************************************************)
(* Payment matching of hibiscus_connect (hibiscus_connect/tools.py):       *)
(* the reference extractors, the combination solver, the match classifier  *)
(* and the booking they feed.                                              *)
(*                                                                         *)
(* Text is a sequence of one-character strings.  Amounts are integers in   *)
(* units of 0.0001, so that round(x, 3) and round(x, 2) are conversions    *)
(* that lose digits.                                                       *)
(***************************************************************************)
EXTENDS Integers, Sequences, FiniteSets, TLC

VARIABLES
    invoices,         \* table Sales Invoice, rows in the database's default order
    hib_trans_doc,    \* the Hibiscus Connect Transaction being matched
    bank_accounts,    \* table Bank Account
    banks,            \* table Bank
    payment_entries,  \* table Payment Entry
    settings,         \* the single Hibiscus Connect Settings
    matching_list,    \* what the last match_payment returned
    thrown,           \* the message of the exception the last call raised, "" if none
    args,             \* arguments of a directly called function
    ret,              \* what the directly called function returned
    transactions,     \* table Hibiscus Connect Transaction, as a batch reads it
    job,              \* the bulk matching job: cache entry, queue and workers
    ledger,           \* the Compusoft database: PAYINFO, CAMPKUND and RESER
    fetches           \* the runs of get_transactions_for_account under way, per trigger

vars == <<invoices, hib_trans_doc, bank_accounts, banks, payment_entries, settings,
          matching_list, thrown, args, ret, transactions, job, ledger, fetches>>

\* what a directly called function leaves alone
dbVars == <<invoices, hib_trans_doc, bank_accounts, banks, payment_entries, settings,
            matching_list, thrown, transactions, job, ledger, fetches>>

\* what the functions that work on one transaction leave alone
batchVars == <<transactions, job, ledger, fetches>>

\* no job was ever started: no cache entry "matching_job_info", nothing queued, no
\* worker running, no start request under way
NoJob == [cache |-> "none", passed |-> 0, enqueued |-> 0, queued |-> 0, running |-> 0,
          looped |-> 0, started |-> 0]

\* a Compusoft database without rows; state "ok": reachable, "down": the connection
\* fails, "missing": the module ssc_camp_management is not installed
NoLedger == [state |-> "ok", payinfo |-> <<>>, campkund |-> {}, reser |-> {}]

\* no import is under way
NoFetches == <<>>

BatchIdle ==
    /\ transactions = <<>>
    /\ job = NoJob
    /\ fetches = NoFetches
    /\ ledger = NoLedger

(***************************************************************************)
(* Bounds                                                                  *)
(***************************************************************************)
MaxTotals == 3        \* length of the list of totals handed to subset_sum
MaxTokens == 2        \* number of tokens a generated purpose text is made of
MaxSinvs == 2         \* length of the unpaid-number list handed to an extractor
MaxPaymentEntries == 1  \* Payment Entries stored before the handlers stop being called

(***************************************************************************)
(* Python values                                                           *)
(***************************************************************************)
\* False where a string is expected; no text equals it (text has one-character elements)
PyFalse == <<"<False>">>

\* None / a list, as returned by subset_sum and combine_totals
PyNone == [none |-> TRUE, val |-> <<>>]

PyList(l) == [none |-> FALSE, val |-> l]

\* Python truth of an optional list: None and [] are false
Truthy(r) == ~r.none /\ r.val # <<>>

RECURSIVE SumSeq(_)
SumSeq(s) == IF s = <<>> THEN 0 ELSE Head(s) + SumSeq(Tail(s))

RECURSIVE Concat(_)
Concat(ss) == IF ss = <<>> THEN <<>> ELSE Head(ss) \o Concat(Tail(ss))

\* all sequences over S of length at most n
SeqsUpTo(S, n) == UNION {[1..k -> S] : k \in 0..n}

\* all sequences without repetition over S of length at most n
DistinctSeqsUpTo(S, n) ==
    {s \in SeqsUpTo(S, n) : \A i, j \in 1..Len(s) : s[i] = s[j] => i = j}

Contains(l, x) == \E i \in 1..Len(l) : l[i] = x

\* round(x, digits) of an amount in units of 0.0001, ties to even
Round(x, digits) ==
    LET step == IF digits = 3 THEN 10 ELSE 100
        q == x \div step
        r == x % step
    IN  IF 2 * r < step THEN q * step
        ELSE IF 2 * r > step THEN (q + 1) * step
        ELSE IF q % 2 = 0 THEN q * step ELSE (q + 1) * step

(***************************************************************************)
(* Text: str.replace, str.lower, str.split and re.findall                  *)
(***************************************************************************)
UpperLetters == <<"A", "B", "C", "D", "E", "F", "G", "H", "I", "J", "K", "L", "M",
                  "N", "O", "P", "Q", "R", "S", "T", "U", "V", "W", "X", "Y", "Z">>

LowerLetters == <<"a", "b", "c", "d", "e", "f", "g", "h", "i", "j", "k", "l", "m",
                  "n", "o", "p", "q", "r", "s", "t", "u", "v", "w", "x", "y", "z">>

LowerChar(c) ==
    IF \E k \in 1..Len(UpperLetters) : UpperLetters[k] = c
    THEN LowerLetters[CHOOSE k \in 1..Len(UpperLetters) : UpperLetters[k] = c]
    ELSE c

\* str.lower()
Lower(text) == [k \in 1..Len(text) |-> LowerChar(text[k])]

RECURSIVE RemoveChar(_, _)
\* text.replace(c, "") for a single character c
RemoveChar(text, c) ==
    IF text = <<>> THEN <<>>
    ELSE IF Head(text) = c THEN RemoveChar(Tail(text), c)
    ELSE <<Head(text)>> \o RemoveChar(Tail(text), c)

RECURSIVE Split(_, _)
\* text.split(c): the list of the pieces between the occurrences of c
Split(text, c) ==
    IF ~Contains(text, c) THEN <<text>>
    ELSE LET k == CHOOSE i \in 1..Len(text) :
                    text[i] = c /\ \A j \in 1..(i - 1) : text[j] # c
         IN  <<SubSeq(text, 1, k - 1)>> \o Split(SubSeq(text, k + 1, Len(text)), c)

IsDigit(c) == c \in {"0", "1", "2", "3", "4", "5", "6", "7", "8", "9"}

\* the literal alt matches text at position i
MatchesAt(alt, text, i) ==
    /\ i + Len(alt) - 1 <= Len(text)
    /\ SubSeq(text, i, i + Len(alt) - 1) = alt

IsSubstring(alt, text) == \E i \in 1..(Len(text) + 1) : MatchesAt(alt, text, i)

\* the alternatives of the pattern "|".join(list): the list's literals in order;
\* the join of an empty list is the empty pattern, which matches the empty string
Alternatives(list) == IF list = <<>> THEN << <<>> >> ELSE list

RECURSIVE FindAllFrom(_, _, _, _)
\* re.findall of an alternation of literals, scanning from position i: the leftmost
\* match of the first alternative that matches, then on from its end; an empty match
\* is reported once per position (noEmpty: an empty match was just reported here)
FindAllFrom(alts, text, i, noEmpty) ==
    LET ok == {k \in 1..Len(alts) :
                 MatchesAt(alts[k], text, i) /\ (noEmpty => alts[k] # <<>>)}
    IN  IF ok = {}
        THEN IF i > Len(text) THEN <<>> ELSE FindAllFrom(alts, text, i + 1, FALSE)
        ELSE LET k == CHOOSE a \in ok : \A b \in ok : a <= b
                 m == alts[k]
             IN  IF m = <<>>
                 THEN <<m>> \o FindAllFrom(alts, text, i, TRUE)
                 ELSE <<m>> \o FindAllFrom(alts, text, i + Len(m), FALSE)

ReFindAll(alts, text) == FindAllFrom(alts, text, 1, FALSE)

RECURSIVE Dedup(_)
\* the elements of l in first-seen order, each once
Dedup(l) ==
    IF l = <<>> THEN <<>>
    ELSE LET front == Dedup(SubSeq(l, 1, Len(l) - 1))
             x == l[Len(l)]
         IN  IF Contains(front, x) THEN front ELSE Append(front, x)

\* the hard-coded series prefix "SINV-"
SinvPrefix == <<"S", "I", "N", "V", "-">>

(***************************************************************************)
(* Reference extractor: loose and customer mode                            *)
(***************************************************************************)
\* faulty variant: the purpose is searched as it is, spaces kept
_advanced_si_match_keepspaces(purpose, sinvs) ==
    LET match_regex_naming_series == ReFindAll(Alternatives(sinvs), purpose)
    IN  Dedup([k \in 1..Len(match_regex_naming_series) |->
                    SinvPrefix \o match_regex_naming_series[k]])

_advanced_si_match(purpose, sinvs) ==
    LET stripped == RemoveChar(purpose, " ")
        match_regex_naming_series == ReFindAll(Alternatives(sinvs), stripped)
    IN  Dedup([k \in 1..Len(match_regex_naming_series) |->
                    SinvPrefix \o match_regex_naming_series[k]])

\* SQL: name LIKE 'SINV-RET-%'
IsReturnName(name) == MatchesAt(SinvPrefix \o <<"R", "E", "T", "-">>, name, 1)

\* the rows of frappe.get_all("Sales Invoice", status not in (Return, Paid),
\* name not like 'SINV-RET-%'), in the table's order
UnpaidRows(db) ==
    SelectSeq(db, LAMBDA si : si.status \notin {"Return", "Paid"} /\ ~IsReturnName(si.name))

_get_unpaid_sinv_numbers(db) ==
    LET sinvs == UnpaidRows(db)
    IN  [k \in 1..Len(sinvs) |-> Split(sinvs[k].name, "-")[2]]

_get_unpaid_sinv_names(db) ==
    LET sinvs == UnpaidRows(db)
    IN  [k \in 1..Len(sinvs) |-> sinvs[k].name]

\* what a call returns or raises
Returned(v) == [raised |-> FALSE, value |-> v, message |-> ""]

Raised(msg) == [raised |-> TRUE, value |-> <<>>, message |-> msg]

AmbiguityError == "Mehr als eine Kundenummern im Verwendungszweck gefunden."

\* the lowercased customer ids of the invoices named in sinvs, each once
CustList(sinvs, db) ==
    LET sinv_doc_list == SelectSeq(db, LAMBDA si : Contains(sinvs, si.name))
    IN  Dedup([k \in 1..Len(sinv_doc_list) |-> Lower(sinv_doc_list[k].customer)])

\* faulty variant: more than one match is not an error, the first one is returned
_cust_match_first(purpose, sinvs, db) ==
    LET text == Lower(RemoveChar(purpose, " "))
        match_regex_customer == ReFindAll(Alternatives(CustList(sinvs, db)), text)
    IN  IF match_regex_customer # <<>>
        THEN Returned(match_regex_customer[1])
        ELSE Returned(PyFalse)

_cust_match(purpose, sinvs, db) ==
    LET cust_list == CustList(sinvs, db)
        text == Lower(RemoveChar(purpose, " "))
        match_regex_customer == ReFindAll(Alternatives(cust_list), text)
    IN  IF match_regex_customer # <<>>
        THEN IF Len(match_regex_customer) > 1
             THEN Raised(AmbiguityError)
             ELSE Returned(match_regex_customer[1])
        ELSE Returned(PyFalse)

(***************************************************************************)
(* Combination solver                                                      *)
(***************************************************************************)
RECURSIVE subset_sum_loop_exceed(_, _, _, _)
RECURSIVE subset_sum_exceed(_, _, _)
\* faulty variant: accepts any partial sum that reaches the target
subset_sum_exceed(numbers, target, partial) ==
    LET s == SumSeq(partial)
    IN  IF s >= target THEN PyList(partial)
        ELSE subset_sum_loop_exceed(numbers, target, partial, 1)

subset_sum_loop_exceed(numbers, target, partial, i) ==
    IF i > Len(numbers) THEN PyNone
    ELSE LET result == subset_sum_exceed(SubSeq(numbers, i + 1, Len(numbers)), target,
                                         Append(partial, numbers[i]))
         IN  IF Truthy(result) THEN result
             ELSE subset_sum_loop_exceed(numbers, target, partial, i + 1)

RECURSIVE subset_sum_loop_firstonly(_, _, _, _)
RECURSIVE subset_sum_firstonly(_, _, _)
\* faulty variant: returns from the loop after its first branch, found or not
subset_sum_firstonly(numbers, target, partial) ==
    LET s == SumSeq(partial)
    IN  IF Round(s, 3) = target THEN PyList(partial)
        ELSE IF s > target THEN PyNone
        ELSE subset_sum_loop_firstonly(numbers, target, partial, 1)

subset_sum_loop_firstonly(numbers, target, partial, i) ==
    IF i > Len(numbers) THEN PyNone
    ELSE subset_sum_firstonly(SubSeq(numbers, i + 1, Len(numbers)), target,
                              Append(partial, numbers[i]))

RECURSIVE subset_sum_loop(_, _, _, _)
RECURSIVE subset_sum(_, _, _)
subset_sum(numbers, target, partial) ==
    LET s == SumSeq(partial)
    IN  IF Round(s, 3) = target THEN PyList(partial)
        ELSE IF s > target THEN PyNone
        ELSE subset_sum_loop(numbers, target, partial, 1)

\* the for loop of subset_sum, from index i (1-based) on
subset_sum_loop(numbers, target, partial, i) ==
    IF i > Len(numbers) THEN PyNone
    ELSE LET result == subset_sum(SubSeq(numbers, i + 1, Len(numbers)), target,
                                  Append(partial, numbers[i]))
         IN  IF Truthy(result) THEN result
             ELSE subset_sum_loop(numbers, target, partial, i + 1)

(***************************************************************************)
(* Reference extractor: strict mode; invoice index                         *)
(***************************************************************************)
\* the configured default naming series of Sales Invoice: "SINV-.##"
naming_series == <<"S", "I", "N", "V", "-", ".", "#", "#">>

\* str(naming_series).replace(".", "").replace("#", "\\d"): the pattern's items, a
\* literal character or the digit class
regex_naming_series ==
    LET series == IF Contains(naming_series, "#") THEN naming_series
                  ELSE naming_series \o <<"#", "#", "#", "#", "#", "#">>
        nodots == RemoveChar(series, ".")
    IN  [k \in 1..Len(nodots) |-> IF nodots[k] = "#" THEN "\\d" ELSE nodots[k]]

PatternMatchesAt(pattern, text, i) ==
    /\ i + Len(pattern) - 1 <= Len(text)
    /\ \A k \in 1..Len(pattern) :
         IF pattern[k] = "\\d" THEN IsDigit(text[i + k - 1]) ELSE text[i + k - 1] = pattern[k]

RECURSIVE FindAllPatternFrom(_, _, _)
\* re.findall of a pattern without alternation, from position i
FindAllPatternFrom(pattern, text, i) ==
    IF i > Len(text) THEN <<>>
    ELSE IF PatternMatchesAt(pattern, text, i)
    THEN <<SubSeq(text, i, i + Len(pattern) - 1)>>
         \o FindAllPatternFrom(pattern, text, i + Len(pattern))
    ELSE FindAllPatternFrom(pattern, text, i + 1)

\* frappe.db.exists("Sales Invoice", name)
Exists(db, name) == \E k \in 1..Len(db) : db[k].name = name

\* frappe.get_doc("Sales Invoice", name), for a name that exists
GetDoc(db, name) == db[CHOOSE k \in 1..Len(db) : db[k].name = name]

_get_sinv_names(purpose, sinvs, db) ==
    LET match_regex_naming_series == FindAllPatternFrom(regex_naming_series, purpose, 1)
    IN  SelectSeq(Dedup(match_regex_naming_series), LAMBDA m : Exists(db, m))

_get_grand_totals(sinv_list, db) ==
    LET existing == SelectSeq(sinv_list, LAMBDA sinv : Exists(db, sinv))
    IN  Round(SumSeq([k \in 1..Len(existing) |-> GetDoc(db, existing[k]).grand_total]), 2)

(***************************************************************************)
(* Customer tier                                                           *)
(***************************************************************************)
\* the order of characters in names
CharOrder == <<"-">> \o <<"0", "1", "2", "3", "4", "5", "6", "7", "8", "9">>
             \o UpperLetters \o LowerLetters

Rank(c) == IF \E k \in 1..Len(CharOrder) : CharOrder[k] = c
           THEN CHOOSE k \in 1..Len(CharOrder) : CharOrder[k] = c
           ELSE 0

RECURSIVE TextLess(_, _)
\* a < b for strings
TextLess(a, b) ==
    IF b = <<>> THEN FALSE
    ELSE IF a = <<>> THEN TRUE
    ELSE IF Head(a) = Head(b) THEN TextLess(Tail(a), Tail(b))
    ELSE Rank(Head(a)) < Rank(Head(b))

RECURSIVE SortRows(_)
\* ORDER BY name ASC
SortRows(rows) ==
    IF rows = <<>> THEN <<>>
    ELSE LET k == CHOOSE i \in 1..Len(rows) :
                    \A j \in 1..Len(rows) : j = i \/ TextLess(rows[i].name, rows[j].name)
                                                    \/ (rows[i].name = rows[j].name /\ i < j)
         IN  <<rows[k]>> \o SortRows(SubSeq(rows, 1, k - 1) \o SubSeq(rows, k + 1, Len(rows)))

\* SQL equality of strings under the database's case-insensitive collation; False
\* equals no customer id
DbEq(a, b) == a # PyFalse /\ b # PyFalse /\ Lower(a) = Lower(b)

combine_totals(sum, sinvs) ==
    LET sinv_totals == [k \in 1..Len(sinvs) |-> sinvs[k].grand_total]
        result == subset_sum(sinv_totals, sum, <<>>)
    IN  IF Truthy(result) THEN result ELSE PyNone

\* the nested loops over combined_totals and sinv_doc_list
MatchedByTotals(combined_totals, sinv_doc_list) ==
    Dedup(Concat([c \in 1..Len(combined_totals) |->
            LET hits == SelectSeq(sinv_doc_list,
                                  LAMBDA sinv : combined_totals[c] = sinv.grand_total)
            IN  [k \in 1..Len(hits) |-> hits[k].name]]))

find_matching_invoices_for_customer_payment(trans, sinv_names, customer, db) ==
    LET sinv_doc_list ==
            SortRows(SelectSeq(db, LAMBDA si : /\ Contains(sinv_names, si.name)
                                               /\ si.grand_total <= trans.amount
                                               /\ DbEq(si.customer, customer)))
        combined_totals == combine_totals(trans.amount, sinv_doc_list)
    IN  IF Truthy(combined_totals)
        THEN MatchedByTotals(combined_totals.val, sinv_doc_list)
        ELSE <<>>

(***************************************************************************)
(* Match classifier                                                        *)
(***************************************************************************)
\* the matching_list dictionary as match_payment creates it; totals = -1: key not set
NewMatchingList(trans) ==
    [sinvs_matched_strict |-> FALSE, sinvs_matched_loose |-> FALSE,
     sinvs_matched_cust |-> FALSE, totals_matched |-> FALSE,
     amount |-> trans.amount, purpose |-> trans.purpose,
     sinvs |-> <<>>, sinvs_loose |-> <<>>, cust |-> <<>>, sinvs_cust |-> <<>>,
     totals |-> -1]

\* frappe.get_all("Bank Account", filters={"iban": iban})
AccountsWithIban(accounts, iban) == {a \in accounts : a.iban = iban}

\* step 3.2: the customer of the counterparty's bank account, when 3 and 3.1 gave none
CustomerByIban(matched, acc) ==
    IF matched.raised THEN matched
    ELSE IF (matched.value = <<>> \/ matched.value = PyFalse) /\ acc # {}
    THEN Returned((CHOOSE a \in acc : TRUE).party)
    ELSE matched

\* steps 3, 3.1, 3.2 of match_payment: the customer of the transaction
ResolveCustomer(trans, sinv_names, db, accounts) ==
    IF trans.customer # <<>>
    THEN Returned(trans.customer)
    ELSE CustomerByIban(_cust_match(trans.purpose, sinv_names, db),
                        AccountsWithIban(accounts, trans.counterparty_iban))

\* step 3.3, after the search: a customer match if invoices were found
CustomerMatched(ml) ==
    IF ml.sinvs_cust # <<>>
    THEN Returned([ml EXCEPT !.sinvs_matched_cust = TRUE, !.totals_matched = TRUE])
    ELSE Returned(ml)

\* step 3.3 of match_payment, for the customer resolved (or the error raised)
CustomerDecision(ml, cust, trans, sinv_names, db) ==
    IF cust.raised THEN cust
    ELSE IF cust.value # <<>>
    THEN CustomerMatched(
             [ml EXCEPT !.cust = cust.value,
                        !.sinvs_cust = find_matching_invoices_for_customer_payment(
                                           trans, sinv_names, cust.value, db)])
    ELSE Returned([ml EXCEPT !.cust = cust.value])

CustomerTier(ml, trans, sinv_names, db, accounts) ==
    CustomerDecision(ml, ResolveCustomer(trans, sinv_names, db, accounts), trans,
                     sinv_names, db)

\* step 2.1: the loose candidates' totals against the amount
LooseTotals(ml, trans, sinv_names, db, accounts) ==
    IF trans.amount = ml.totals
    THEN Returned([ml EXCEPT !.sinvs_matched_loose = TRUE, !.totals_matched = TRUE])
    ELSE CustomerTier(ml, trans, sinv_names, db, accounts)

LooseDecision(ml, trans, sinv_names, db, accounts) ==
    IF ml.sinvs_loose # <<>>
    THEN LooseTotals([ml EXCEPT !.totals = _get_grand_totals(ml.sinvs_loose, db)],
                     trans, sinv_names, db, accounts)
    ELSE CustomerTier(ml, trans, sinv_names, db, accounts)

\* step 2 of match_payment
LooseTier(ml, trans, sinvs, sinv_names, db, accounts) ==
    LooseDecision([ml EXCEPT !.sinvs_loose = _advanced_si_match(trans.purpose, sinvs)],
                  trans, sinv_names, db, accounts)

\* faulty variant: a full strict match sets its flags but does not return
StrictTotals_fallthrough(ml, trans, sinvs, sinv_names, db, accounts) ==
    LooseTier([ml EXCEPT !.sinvs_matched_strict = (trans.amount = ml.totals),
                         !.totals_matched = (trans.amount = ml.totals)],
              trans, sinvs, sinv_names, db, accounts)

\* step 1.1: the strict candidates' totals against the amount
StrictTotals(ml, trans, sinvs, sinv_names, db, accounts) ==
    IF trans.amount = ml.totals
    THEN Returned([ml EXCEPT !.sinvs_matched_strict = TRUE, !.totals_matched = TRUE])
    ELSE LooseTier(ml, trans, sinvs, sinv_names, db, accounts)

StrictDecision(ml, trans, sinvs, sinv_names, db, accounts) ==
    IF ml.sinvs # <<>>
    THEN StrictTotals([ml EXCEPT !.totals = _get_grand_totals(ml.sinvs, db)],
                      trans, sinvs, sinv_names, db, accounts)
    ELSE LooseTier(ml, trans, sinvs, sinv_names, db, accounts)

\* step 1 of match_payment
StrictTier(trans, sinvs, sinv_names, db, accounts) ==
    StrictDecision([NewMatchingList(trans) EXCEPT
                        !.sinvs = _get_sinv_names(trans.purpose, sinvs, db)],
                   trans, sinvs, sinv_names, db, accounts)

\* sinvs_arg, sinv_names_arg: the optional arguments, <<>> when not given
match_payment(trans, sinvs_arg, sinv_names_arg, db, accounts) ==
    StrictTier(trans,
               IF sinvs_arg = <<>> THEN _get_unpaid_sinv_numbers(db) ELSE sinvs_arg,
               IF sinv_names_arg = <<>> THEN _get_unpaid_sinv_names(db) ELSE sinv_names_arg,
               db, accounts)

(***************************************************************************)
(* Booking engine                                                          *)
(***************************************************************************)
\* the Payment Entry document as make_payment_entry creates it
NewPaymentEntry(ml, trans) ==
    [party |-> <<>>, paid_from |-> "", paid_amount |-> ml.amount,
     hibiscus_connect_transaction |-> trans.name, references |-> <<>>,
     total_allocated_amount |-> 0, unallocated_amount |-> 0, difference_amount |-> 0,
     docstatus |-> 0]

\* pe_doc.save(): the document with the amounts the Payment Entry controller derives
Save(pe) ==
    LET allocated == SumSeq([k \in 1..Len(pe.references) |->
                               pe.references[k].allocated_amount])
        unallocated == IF pe.paid_amount > allocated THEN pe.paid_amount - allocated ELSE 0
    IN  [pe EXCEPT !.total_allocated_amount = allocated,
                   !.unallocated_amount = unallocated,
                   !.difference_amount = allocated + unallocated - pe.paid_amount]

_get_payment_entry_reference(sinv, db) ==
    LET sinv_doc == GetDoc(db, sinv)
    IN  [reference_doc |-> [reference_name |-> sinv,
                            total_amount |-> sinv_doc.grand_total,
                            outstanding_amount |-> sinv_doc.outstanding_amount,
                            allocated_amount |-> sinv_doc.outstanding_amount],
         sinv_doc |-> sinv_doc]

RECURSIVE InsertSorted(_, _)
InsertSorted(l, x) ==
    IF l = <<>> THEN <<x>>
    ELSE IF TextLess(x, Head(l)) THEN <<x>> \o l
    ELSE <<Head(l)>> \o InsertSorted(Tail(l), x)

RECURSIVE SortTexts(_)
\* list.sort() of a list of strings
SortTexts(l) == IF l = <<>> THEN <<>> ELSE InsertSorted(SortTexts(Tail(l)), Head(l))

\* the todo list of make_payment_entry
Todo(ml) == SortTexts(Dedup(ml.sinvs \o ml.sinvs_loose \o ml.sinvs_cust))

RECURSIVE BookingLoop(_, _, _, _)
RECURSIVE AddReference(_, _, _, _, _)
RECURSIVE SetPaidFrom(_, _, _, _, _)
RECURSIVE SaveInLoop(_, _, _, _)
RECURSIVE AfterSave(_, _, _, _)
\* the for loop of make_payment_entry over the rest of todo.  st.pe: the document in
\* memory; st.stored: its last saved version (<<>>: never saved); st.error: the
\* collected error messages; st.other_account_sinv; st.raised: the loop was left by an
\* exception.  save_fails: the invoices at which pe_doc.save() raises
BookingLoop(todo, st, db, save_fails) ==
    IF todo = <<>> THEN st
    ELSE IF ~Exists(db, Head(todo)) THEN [st EXCEPT !.raised = TRUE]
    ELSE AddReference(todo, st, _get_payment_entry_reference(Head(todo), db), db,
                      save_fails)

\* the party of the payment: set by the first invoice, an error (break) when another
\* invoice has a different customer
AddReference(todo, st, response, db, save_fails) ==
    IF st.pe.party # <<>> /\ st.pe.party # response.sinv_doc.customer
    THEN [st EXCEPT !.error = Append(@, "Verschiedene Kundenummern")]
    ELSE SetPaidFrom(todo, [st EXCEPT !.pe.party = response.sinv_doc.customer],
                     response, db, save_fails)

\* faulty variant: the reference is appended whatever the invoice's account is
SetPaidFrom_nocheck(todo, st, response, db, save_fails) ==
    SaveInLoop(todo,
               [st EXCEPT !.pe.paid_from = IF @ = "" THEN response.sinv_doc.debit_to ELSE @,
                          !.pe.references = Append(@, response.reference_doc)],
               db, save_fails)

\* the receivables account: set by the first invoice; an invoice of another account is
\* set aside (continue); otherwise the reference is appended
SetPaidFrom(todo, st, response, db, save_fails) ==
    IF st.pe.paid_from # "" /\ st.pe.paid_from # response.sinv_doc.debit_to
    THEN BookingLoop(Tail(todo),
                     [st EXCEPT !.other_account_sinv = Append(@, Head(todo))],
                     db, save_fails)
    ELSE SaveInLoop(todo,
                    [st EXCEPT !.pe.paid_from = response.sinv_doc.debit_to,
                               !.pe.references = Append(@, response.reference_doc)],
                    db, save_fails)

\* try: pe_doc.save() ... except: the error is collected and the loop goes on
SaveInLoop(todo, st, db, save_fails) ==
    IF Head(todo) \in save_fails
    THEN BookingLoop(Tail(todo), [st EXCEPT !.error = Append(@, "save raised")],
                     db, save_fails)
    ELSE AfterSave(todo, [st EXCEPT !.pe = Save(@), !.stored = <<Save(st.pe)>>],
                   db, save_fails)

\* break once nothing is left unallocated
AfterSave(todo, st, db, save_fails) ==
    IF st.pe.unallocated_amount = 0 THEN st
    ELSE BookingLoop(Tail(todo), st, db, save_fails)

\* pe_doc.submit(): the invoices after the allocations of pe are posted
PostAllocations(db, pe) ==
    [k \in 1..Len(db) |->
        LET paid == SumSeq([r \in 1..Len(pe.references) |->
                              IF pe.references[r].reference_name = db[k].name
                              THEN pe.references[r].allocated_amount ELSE 0])
            rest == db[k].outstanding_amount - paid
        IN  IF paid = 0 THEN db[k]
            ELSE [db[k] EXCEPT !.outstanding_amount = rest,
                               !.status = IF rest <= 0 THEN "Paid" ELSE "Partly Paid"]]

\* what make_payment_entry leaves behind.  stored: the Payment Entry in the database
\* (<<>>: none), trans: the transaction, db: the invoices, msgs: msgprint
Booked(pe, stored, trans, db, msgs) ==
    [raised |-> FALSE, pe |-> pe, stored |-> stored, trans |-> trans, db |-> db,
     msgs |-> msgs]

\* faulty variant: with auto-submit on, the payment is submitted whatever its
\* difference amount is
Finalize_nodiffcheck(pe, other_account_sinv, trans, db, auto_submit) ==
    IF other_account_sinv # <<>>
    THEN Booked(pe, <<pe>>, trans, db, <<"Es wurden verschiedene Konten angesprochen">>)
    ELSE IF ~auto_submit THEN Booked(pe, <<pe>>, trans, db, <<>>)
    ELSE Booked([pe EXCEPT !.docstatus = 1], <<[pe EXCEPT !.docstatus = 1]>>,
                [trans EXCEPT !.status = "auto booked"], PostAllocations(db, pe), <<>>)

\* faulty variant: with auto-submit on, the transaction is marked as booked also when
\* the payment is left open because of its difference amount
Finalize_statusalways(pe, other_account_sinv, trans, db, auto_submit) ==
    IF other_account_sinv # <<>>
    THEN Booked(pe, <<pe>>, trans, db, <<"Es wurden verschiedene Konten angesprochen">>)
    ELSE IF ~auto_submit THEN Booked(pe, <<pe>>, trans, db, <<>>)
    ELSE IF pe.difference_amount # 0
    THEN Booked(pe, <<pe>>, [trans EXCEPT !.status = "auto booked"], db,
                <<"Es kamen mehrere identische Betraege in Frage">>)
    ELSE Booked([pe EXCEPT !.docstatus = 1], <<[pe EXCEPT !.docstatus = 1]>>,
                [trans EXCEPT !.status = "auto booked"], PostAllocations(db, pe), <<>>)

\* the end of make_payment_entry: submit if auto-submit is on and the amounts agree
Finalize(pe, other_account_sinv, trans, db, auto_submit) ==
    IF other_account_sinv # <<>>
    THEN Booked(pe, <<pe>>, trans, db, <<"Es wurden verschiedene Konten angesprochen">>)
    ELSE IF ~auto_submit THEN Booked(pe, <<pe>>, trans, db, <<>>)
    ELSE IF pe.difference_amount # 0
    THEN Booked(pe, <<pe>>, trans, db, <<"Es kamen mehrere identische Betraege in Frage">>)
    ELSE IF Round(pe.unallocated_amount + pe.total_allocated_amount, 2) # pe.paid_amount
    THEN Booked(pe, <<pe>>, trans, db, <<"Es gibt noch unzugeordnete Betraege">>)
    ELSE Booked([pe EXCEPT !.docstatus = 1], <<[pe EXCEPT !.docstatus = 1]>>,
                [trans EXCEPT !.status = "auto booked"], PostAllocations(db, pe), <<>>)

\* make_payment_entry after its loop
AfterLoop(st, trans, db, auto_submit) ==
    IF st.raised
    THEN [raised |-> TRUE, pe |-> st.pe, stored |-> <<>>, trans |-> trans, db |-> db,
          msgs |-> <<>>]
    ELSE IF st.error # <<>>
    THEN Booked(st.pe, st.stored, trans, db, st.error)
    ELSE Finalize(Save(st.pe), st.other_account_sinv,
                  [trans EXCEPT !.customer = st.pe.party], db, auto_submit)

make_payment_entry(ml, trans, db, auto_submit, save_fails) ==
    AfterLoop(BookingLoop(Todo(ml),
                          [pe |-> NewPaymentEntry(ml, trans), stored |-> <<>>,
                           error |-> <<>>, other_account_sinv |-> <<>>, raised |-> FALSE],
                          db, save_fails),
              trans, db, auto_submit)

\* faulty variant: looks for a bank account of this customer with the IBAN, not for any
\* bank account with the IBAN
create_bank_account_for_customer_percustomer(customer, iban, bic, accounts, bank_table) ==
    IF \E a \in AccountsWithIban(accounts, iban) : a.party = customer
    THEN [bank_accounts |-> accounts, banks |-> bank_table]
    ELSE LET known == {b \in bank_table : b.swift_number = bic}
             bank == IF known = {} THEN "unknown " \o bic
                     ELSE (CHOOSE b \in known : TRUE).name
         IN  [bank_accounts |-> accounts \cup {[iban |-> iban, party |-> customer,
                                                 bank |-> bank]},
              banks |-> IF known = {}
                        THEN bank_table \cup {[name |-> bank, swift_number |-> bic]}
                        ELSE bank_table]

\* create_bank_account_for_customer: the tables Bank Account and Bank afterwards
create_bank_account_for_customer(customer, iban, bic, accounts, bank_table) ==
    IF AccountsWithIban(accounts, iban) # {}
    THEN [bank_accounts |-> accounts, banks |-> bank_table]
    ELSE LET known == {b \in bank_table : b.swift_number = bic}
             bank == IF known = {} THEN "unknown " \o bic
                     ELSE (CHOOSE b \in known : TRUE).name
         IN  [bank_accounts |-> accounts \cup {[iban |-> iban, party |-> customer,
                                                 bank |-> bank]},
              banks |-> IF known = {}
                        THEN bank_table \cup {[name |-> bank, swift_number |-> bic]}
                        ELSE bank_table]

(***************************************************************************)
(* Values kept while a function is called directly                         *)
(***************************************************************************)
NoCall == [fn |-> "none"]

NoTrans == [name |-> "", purpose |-> <<>>, amount |-> 0, customer |-> <<>>,
            counterparty_iban |-> "", counterparty_bic |-> "", status |-> "new"]

NoMatching == [called |-> FALSE]

DbIdle ==
    /\ invoices = <<>>
    /\ hib_trans_doc = NoTrans
    /\ bank_accounts = {}
    /\ banks = {}
    /\ payment_entries = <<>>
    /\ BatchIdle
    /\ settings = [auto_submit_payment_entry |-> FALSE]
    /\ matching_list = NoMatching
    /\ thrown = ""

(***************************************************************************)
(* SpecSolver: subset_sum called on bounded lists of totals                *)
(***************************************************************************)
\* totals in units of 0.0001: 0, 0.0004, 0.0006, 0.001, 0.002
SolverTotals == {0, 4, 6, 10, 20}

\* targets: 0.0004, 0.001, 0.002, 0.003
SolverTargets == {4, 10, 20, 30}

InitSolver ==
    /\ DbIdle
    /\ \E numbers \in SeqsUpTo(SolverTotals, MaxTotals), target \in SolverTargets :
         args = [fn |-> "subset_sum", numbers |-> numbers, target |-> target]
    /\ ret = NoCall

CallSubsetSum ==
    /\ args.fn = "subset_sum"
    /\ ret = NoCall
    /\ ret' = [fn |-> "subset_sum", result |-> subset_sum(args.numbers, args.target, <<>>)]
    /\ UNCHANGED <<args, dbVars>>

NextSolver == CallSubsetSum

SpecSolver == InitSolver /\ [][NextSolver]_vars

\* the increasing index sequences of a list of length n (the subsets, as the search builds them)
IndexSeqs(n) ==
    {s \in SeqsUpTo(1..n, n) : \A i \in 1..(Len(s) - 1) : s[i] < s[i + 1]}

Pick(numbers, idx) == [k \in 1..Len(idx) |-> numbers[idx[k]]]

\* idx is visited before other by a depth-first traversal in the given order
Before(idx, other) ==
    \/ /\ Len(idx) < Len(other)
       /\ SubSeq(other, 1, Len(idx)) = idx
    \/ \E k \in 1..Len(idx) :
         /\ k <= Len(other)
         /\ SubSeq(idx, 1, k - 1) = SubSeq(other, 1, k - 1)
         /\ idx[k] < other[k]

SolverCalled == ret # NoCall /\ ret.fn = "subset_sum"

\* C7: whenever subset_sum returns a subset, it is a sub-sequence of the input
\* (increasing positions, each used once) and its sum is within 0.001 of the target
C7_SolverSound ==
    (SolverCalled /\ ~ret.result.none) =>
        /\ \E idx \in IndexSeqs(Len(args.numbers)) : Pick(args.numbers, idx) = ret.result.val
        /\ SumSeq(ret.result.val) - args.target <= 10
        /\ args.target - SumSeq(ret.result.val) <= 10

\* C7 witness: a subset of two totals was returned whose sum is not the target exactly
C7_Witness ==
    /\ SolverCalled
    /\ ~ret.result.none
    /\ Len(ret.result.val) = 2
    /\ SumSeq(ret.result.val) # args.target

\* some subset sums to the target exactly (brute force over all index sets)
BruteForceFinds(numbers, target) ==
    \E idx \in IndexSeqs(Len(numbers)) : SumSeq(Pick(numbers, idx)) = target

\* the first subset, in depth-first order, that the acceptance test of subset_sum takes
FirstAccepted(numbers, target) ==
    LET ok == {idx \in IndexSeqs(Len(numbers)) : Round(SumSeq(Pick(numbers, idx)), 3) = target}
    IN  CHOOSE idx \in ok : \A other \in ok \ {idx} : Before(idx, other)

\* C8 as stated: for every positive target, if brute force finds a subset summing to
\* the target, subset_sum returns a subset, the first one met by depth-first traversal
C8_Original ==
    (SolverCalled /\ args.target > 0 /\ BruteForceFinds(args.numbers, args.target)) =>
        /\ ~ret.result.none
        /\ ret.result.val = Pick(args.numbers, FirstAccepted(args.numbers, args.target))

\* C8 amended: the same for every positive target that has at most three fractional
\* digits (a multiple of 0.001)
C8_SolverComplete ==
    (/\ SolverCalled
     /\ args.target > 0
     /\ args.target % 10 = 0
     /\ BruteForceFinds(args.numbers, args.target)) =>
        /\ ~ret.result.none
        /\ ret.result.val = Pick(args.numbers, FirstAccepted(args.numbers, args.target))

\* C8 witness: the subset found is not the first position alone, and a later total
\* alone would also have summed to the target
C8_Witness ==
    /\ SolverCalled
    /\ args.target % 10 = 0
    /\ BruteForceFinds(args.numbers, args.target)
    /\ ~ret.result.none
    /\ Len(ret.result.val) >= 2
    /\ \E i \in 1..Len(args.numbers) : args.numbers[i] = args.target

(***************************************************************************)
(* SpecLoose: _advanced_si_match called on bounded purposes and number     *)
(* lists                                                                   *)
(***************************************************************************)
\* purposes: the concatenations of at most MaxTokens tokens
Purposes(tokens) == {Concat(ts) : ts \in SeqsUpTo(tokens, MaxTokens)}

\* bare numbers: "1" is a prefix of "12", "12" and "23" overlap in "123"
LooseNumbers == {<<"1">>, <<"1", "2">>, <<"2", "3">>}

LooseTokens == {<<"1", "2">>, <<"1", " ", "2">>, <<"3">>, <<"x">>, <<"2", "3">>}

InitLoose ==
    /\ DbIdle
    /\ \E purpose \in Purposes(LooseTokens),
          sinvs \in DistinctSeqsUpTo(LooseNumbers, MaxSinvs) :
         args = [fn |-> "_advanced_si_match", purpose |-> purpose, sinvs |-> sinvs]
    /\ ret = NoCall

CallAdvancedSiMatch ==
    /\ args.fn = "_advanced_si_match"
    /\ ret = NoCall
    /\ ret' = [fn |-> "_advanced_si_match",
               result |-> _advanced_si_match(args.purpose, args.sinvs)]
    /\ UNCHANGED <<args, dbVars>>

NextLoose == CallAdvancedSiMatch

SpecLoose == InitLoose /\ [][NextLoose]_vars

LooseCalled == ret # NoCall /\ ret.fn = "_advanced_si_match"

Elements(l) == {l[k] : k \in 1..Len(l)}

\* C3: the loose candidate list holds exactly 'SINV-'+n for the unpaid numbers n that
\* occur as a substring of the purpose with its whitespace removed
C3_LooseExact ==
    LooseCalled =>
        Elements(ret.result) =
            {SinvPrefix \o n : n \in {m \in Elements(args.sinvs) :
                                        IsSubstring(m, RemoveChar(args.purpose, " "))}}

\* C4: the loose match of a purpose equals the loose match of the purpose with its
\* spaces removed
C4_LooseSpaceInsensitive ==
    LooseCalled =>
        ret.result = _advanced_si_match(RemoveChar(args.purpose, " "), args.sinvs)

\* C4 witness: a number was matched that the purpose holds only with a space inside it
C4_Witness ==
    /\ LooseCalled
    /\ Contains(args.purpose, " ")
    /\ Contains(ret.result, SinvPrefix \o <<"1", "2">>)
    /\ ~IsSubstring(<<"1", "2">>, args.purpose)

(***************************************************************************)
(* SpecCust: _cust_match called on bounded purposes and invoice tables     *)
(***************************************************************************)
\* invoice names of the series, and one of the return series
InvoiceNames == {SinvPrefix \o <<"1", "2">>, SinvPrefix \o <<"2", "3">>,
                 SinvPrefix \o <<"R", "E", "T", "-", "7">>}

\* customer ids: "K1" is a prefix of "K12"
Customers == {<<"K", "1">>, <<"K", "2">>, <<"K", "1", "2">>}

CustTokens == {<<"k", "1">>, <<"K", "2">>, <<"2">>, <<"x">>, <<" ">>}

Invoice(name, status, customer, total) ==
    [name |-> name, status |-> status, customer |-> customer, grand_total |-> total,
     outstanding_amount |-> IF status = "Paid" THEN 0 ELSE total, debit_to |-> "Debitors"]

\* tables of at most n invoices with distinct names, in any order
InvoiceTables(n, statuses, customers, totals) ==
    {db \in SeqsUpTo({Invoice(nm, st, cu, gt) : nm \in InvoiceNames, st \in statuses,
                                                 cu \in customers, gt \in totals}, n) :
        \A i, j \in 1..Len(db) : db[i].name = db[j].name => i = j}

InitCust ==
    /\ invoices \in InvoiceTables(MaxSinvs, {"Unpaid", "Paid"}, Customers, {10000})
    /\ hib_trans_doc = NoTrans
    /\ bank_accounts = {}
    /\ banks = {}
    /\ payment_entries = <<>>
    /\ BatchIdle
    /\ settings = [auto_submit_payment_entry |-> FALSE]
    /\ matching_list = NoMatching
    /\ thrown = ""
    /\ \E purpose \in Purposes(CustTokens) :
         args = [fn |-> "_cust_match", purpose |-> purpose,
                 sinvs |-> _get_unpaid_sinv_names(invoices)]
    /\ ret = NoCall

CallCustMatch ==
    /\ args.fn = "_cust_match"
    /\ ret = NoCall
    /\ ret' = [fn |-> "_cust_match", result |-> _cust_match(args.purpose, args.sinvs, invoices)]
    /\ UNCHANGED <<args, dbVars>>

NextCust == CallCustMatch

SpecCust == InitCust /\ [][NextCust]_vars

CustCalled == ret # NoCall /\ ret.fn = "_cust_match"

\* the customer ids of the unpaid invoices, lowercased, that occur in the purpose
\* stripped of spaces and lowercased
CustomersFound(purpose, db) ==
    {c \in {Lower(UnpaidRows(db)[k].customer) : k \in 1..Len(UnpaidRows(db))} :
        IsSubstring(c, Lower(RemoveChar(purpose, " ")))}

\* C5: _cust_match raises the ambiguity error iff more than one distinct customer id
\* is found in the purpose; one id, however often, resolves to it; none yields no
\* customer and no error
C5_AmbiguityIffDistinct ==
    CustCalled =>
        LET found == CustomersFound(args.purpose, invoices)
        IN  /\ ret.result.raised <=> Cardinality(found) > 1
            /\ Cardinality(found) = 1 =>
                 ~ret.result.raised /\ ret.result.value \in found
            /\ found = {} =>
                 ~ret.result.raised /\ ret.result.value \in {PyFalse, <<>>}

(***************************************************************************)
(* Spec: one transaction matched against a table of invoices               *)
(***************************************************************************)
MainNames == {SinvPrefix \o <<"1", "2">>, SinvPrefix \o <<"2", "3">>}

MainCustomers == {<<"K", "1">>, <<"K", "2">>}

\* amounts 1.00 and 2.00
MainTotals == {10000, 20000}

MainAmounts == {10000, 20000}

\* "SINV-12", "23", "k1K2"
MainTokens == {SinvPrefix \o <<"1", "2">>, <<"2", "3">>, <<"k", "1", "K", "2">>}

\* tables whose rows are in the order the series numbered them
MainTables ==
    {db \in SeqsUpTo({Invoice(nm, st, cu, gt) : nm \in MainNames, st \in {"Unpaid", "Paid"},
                                                 cu \in MainCustomers, gt \in MainTotals},
                     MaxSinvs) :
        \A i, j \in 1..Len(db) : i < j => TextLess(db[i].name, db[j].name)}

Init ==
    /\ invoices \in MainTables
    /\ \E purpose \in Purposes(MainTokens), amount \in MainAmounts,
          customer \in {<<>>, <<"K", "1">>} :
         hib_trans_doc = [name |-> "T1", purpose |-> purpose, amount |-> amount,
                          customer |-> customer, counterparty_iban |-> "DE01",
                          counterparty_bic |-> "BIC1", status |-> "new"]
    /\ bank_accounts \in {{}, {[iban |-> "DE01", party |-> <<"K", "2">>, bank |-> "Bank1"]}}
    /\ banks = {[name |-> "Bank1", swift_number |-> "BIC1"]}
    /\ payment_entries = <<>>
    /\ BatchIdle
    /\ settings \in {[auto_submit_payment_entry |-> b] : b \in BOOLEAN}
    /\ matching_list = NoMatching
    /\ thrown = ""
    /\ args = NoCall
    /\ ret = NoCall

\* the inputs of a call, kept to compare the database with afterwards
Snapshot ==
    [fn |-> "match_payment", trans |-> hib_trans_doc, db |-> invoices,
     accounts |-> bank_accounts, bank_table |-> banks, pes |-> payment_entries]

\* faulty variant: classification stores the customer it resolved on the transaction
MatchPaymentReturned_savescust(r) ==
    /\ matching_list' = [called |-> TRUE, raised |-> r.raised, value |-> r.value]
    /\ thrown' = r.message
    /\ hib_trans_doc' = IF r.raised \/ r.value.cust = PyFalse THEN hib_trans_doc
                        ELSE [hib_trans_doc EXCEPT !.customer = r.value.cust]
    /\ UNCHANGED <<invoices, bank_accounts, banks, payment_entries>>

\* match_payment(hib_trans) alone: classification without booking.  It only reads the
\* database (frappe.get_doc, frappe.get_all, frappe.db.exists)
MatchPaymentReturned(r) ==
    /\ matching_list' = [called |-> TRUE, raised |-> r.raised, value |-> r.value]
    /\ thrown' = r.message
    /\ UNCHANGED <<invoices, hib_trans_doc, bank_accounts, banks, payment_entries>>

MatchPayment ==
    /\ matching_list = NoMatching
    /\ MatchPaymentReturned(match_payment(hib_trans_doc, <<>>, <<>>, invoices,
                                          bank_accounts))
    /\ args' = Snapshot
    /\ UNCHANGED <<settings, ret, batchVars>>

HandlerRaised(message) ==
    /\ thrown' = message
    /\ ret' = [fn |-> "match_hibiscus_transaction", result |-> "raised"]
    /\ UNCHANGED <<invoices, hib_trans_doc, bank_accounts, banks, payment_entries>>

\* the database after make_payment_entry gave b and create_bank_account_for_customer
\* gave acc
HandlerBooked(ml, b, acc) ==
    /\ thrown' = ""
    /\ ret' = [fn |-> "match_hibiscus_transaction",
               result |-> IF ml.sinvs_matched_strict THEN "Erfolgreich verbucht strict"
                          ELSE IF ml.sinvs_matched_loose THEN "Erfolgreich verbucht loose"
                          ELSE "Erfolgreich verbucht Kunde"]
    /\ payment_entries' = payment_entries \o b.stored
    /\ hib_trans_doc' = b.trans
    /\ invoices' = b.db
    /\ bank_accounts' = acc.bank_accounts
    /\ banks' = acc.banks

HandlerBooking(ml, b) ==
    IF b.raised THEN HandlerRaised("DoesNotExistError")
    ELSE HandlerBooked(ml, b,
             create_bank_account_for_customer(b.pe.party, hib_trans_doc.counterparty_iban,
                 hib_trans_doc.counterparty_bic, bank_accounts, banks))

\* match_hibiscus_transaction after match_payment gave r
HandlerAfterMatch(r) ==
    /\ matching_list' = [called |-> TRUE, raised |-> r.raised, value |-> r.value]
    /\ IF r.raised THEN HandlerRaised(r.message)
       ELSE IF ~(r.value.sinvs_matched_strict \/ r.value.sinvs_matched_loose
                 \/ r.value.sinvs_matched_cust)
       THEN HandlerRaised("Zahlung konnte nicht automatisiert verbucht werden.")
       ELSE \E save_fails \in SUBSET Elements(Todo(r.value)) :
              HandlerBooking(r.value,
                  make_payment_entry(r.value, hib_trans_doc, invoices,
                                     settings.auto_submit_payment_entry, save_fails))

\* match_hibiscus_transaction(hib_trans): classification, booking and bank-account
\* provisioning; an exception leaves the database as it was (the request is rolled back)
MatchHibiscusTransaction ==
    /\ Len(payment_entries) < MaxPaymentEntries
    /\ HandlerAfterMatch(match_payment(hib_trans_doc, <<>>, <<>>, invoices, bank_accounts))
    /\ args' = Snapshot
    /\ UNCHANGED <<settings, batchVars>>

Next == MatchPayment \/ MatchHibiscusTransaction

Spec == Init /\ [][Next]_vars

\* match_payment has returned a result
Classified == matching_list.called /\ ~matching_list.raised

\* the strict tier fully matches on the inputs of the call
StrictFull(trans, db) ==
    LET strict == _get_sinv_names(trans.purpose, _get_unpaid_sinv_numbers(db), db)
    IN  strict # <<>> /\ trans.amount = _get_grand_totals(strict, db)

\* the loose tier fully matches on the inputs of the call
LooseFull(trans, db) ==
    LET loose == _advanced_si_match(trans.purpose, _get_unpaid_sinv_numbers(db))
    IN  loose # <<>> /\ trans.amount = _get_grand_totals(loose, db)

\* C1: at most one of the three tier flags is true, a lower-priority flag is true only
\* if every higher-priority tier failed to fully match, and totals_matched is true
\* exactly when one of the flags is
C1_TiersExclusive ==
    Classified =>
        LET m == matching_list.value
        IN  /\ ~(m.sinvs_matched_strict /\ m.sinvs_matched_loose)
            /\ ~(m.sinvs_matched_strict /\ m.sinvs_matched_cust)
            /\ ~(m.sinvs_matched_loose /\ m.sinvs_matched_cust)
            /\ m.sinvs_matched_loose => ~StrictFull(args.trans, args.db)
            /\ m.sinvs_matched_cust =>
                 ~StrictFull(args.trans, args.db) /\ ~LooseFull(args.trans, args.db)
            /\ m.totals_matched <=>
                 (m.sinvs_matched_strict \/ m.sinvs_matched_loose \/ m.sinvs_matched_cust)

\* C1 witness: a strict match was reported on inputs whose loose tier would have
\* fully matched as well
C1_Witness ==
    /\ Classified
    /\ matching_list.value.sinvs_matched_strict
    /\ LooseFull(args.trans, args.db)

\* C2: every invoice of the strict candidate list is in the unpaid-invoice index
C2_StrictOnlyUnpaid ==
    Classified =>
        \A k \in 1..Len(matching_list.value.sinvs) :
            Contains(_get_unpaid_sinv_names(args.db), matching_list.value.sinvs[k])

\* C10: when a customer match is reported, sinvs_cust lists distinct open invoices of
\* the resolved customer whose grand totals sum to the transaction amount
C10_CustomerSubsetSumsToAmount ==
    (Classified /\ matching_list.value.sinvs_matched_cust) =>
        LET m == matching_list.value
        IN  /\ \A i, j \in 1..Len(m.sinvs_cust) : m.sinvs_cust[i] = m.sinvs_cust[j] => i = j
            /\ \A k \in 1..Len(m.sinvs_cust) :
                 /\ Contains(_get_unpaid_sinv_names(args.db), m.sinvs_cust[k])
                 /\ DbEq(GetDoc(args.db, m.sinvs_cust[k]).customer, m.cust)
            /\ SumSeq([k \in 1..Len(m.sinvs_cust) |->
                         GetDoc(args.db, m.sinvs_cust[k]).grand_total]) = m.amount

\* match_hibiscus_transaction has run; args holds the state it started from
HandlerRan == ret # NoCall /\ ret.fn = "match_hibiscus_transaction"

\* nothing was booked: no Payment Entry was added, the transaction's status and
\* customer are as before
NoBooking ==
    /\ payment_entries = args.pes
    /\ hib_trans_doc.status = args.trans.status
    /\ hib_trans_doc.customer = args.trans.customer

\* the distinct customer ids that the customer search reports in the purpose: the
\* leftmost non-overlapping matches of the unpaid invoices' customer ids
CustomersMatched(purpose, db) ==
    Elements(ReFindAll(Alternatives(CustList(_get_unpaid_sinv_names(db), db)),
                       Lower(RemoveChar(purpose, " "))))

\* C6 as stated: for every transaction whose purpose contains two distinct known
\* customer tokens, the ambiguity error is raised and nothing is booked
C6_Original ==
    (HandlerRan /\ Cardinality(CustomersFound(args.trans.purpose, args.db)) >= 2) =>
        thrown = AmbiguityError /\ NoBooking

\* C6 amended: for every transaction without a customer link, whose strict and loose
\* tiers do not fully match and in whose purpose the customer search reports two
\* distinct known customer tokens, the ambiguity error is raised and nothing is booked
C6_AmbiguityNoBooking ==
    (/\ HandlerRan
     /\ args.trans.customer = <<>>
     /\ ~StrictFull(args.trans, args.db)
     /\ ~LooseFull(args.trans, args.db)
     /\ Cardinality(CustomersMatched(args.trans.purpose, args.db)) >= 2) =>
        thrown = AmbiguityError /\ NoBooking

\* C6 witness: the error was raised for a purpose that names two customers and also
\* carries the full id of an existing invoice
C6_Witness ==
    /\ HandlerRan
    /\ args.trans.customer = <<>>
    /\ Cardinality(CustomersMatched(args.trans.purpose, args.db)) >= 2
    /\ _get_sinv_names(args.trans.purpose, <<>>, args.db) # <<>>
    /\ thrown = AmbiguityError
    /\ NoBooking

\* match_payment was called on its own: no handler has run
OnlyClassified == matching_list.called /\ ret = NoCall

\* C11: after a call of match_payment, whatever its outcome, the transaction, the
\* invoices, the Payment Entries, the bank accounts and the banks are as before the call
C11_ClassificationPure ==
    OnlyClassified =>
        /\ hib_trans_doc = args.trans
        /\ invoices = args.db
        /\ payment_entries = args.pes
        /\ bank_accounts = args.accounts
        /\ banks = args.bank_table

\* C11 witness: match_payment reported a customer match, for a customer the
\* transaction was not linked to, and nothing was stored
C11_Witness ==
    /\ OnlyClassified
    /\ ~matching_list.raised
    /\ matching_list.value.sinvs_matched_cust
    /\ args.trans.customer = <<>>
    /\ hib_trans_doc = args.trans

(***************************************************************************)
(* SpecCap: the customer tier on a growing list of open invoices of one    *)
(* customer                                                                *)
(***************************************************************************)
MaxBulkInvoices == 31   \* open invoices of the customer

DigitChars == <<"0", "1", "2", "3", "4", "5", "6", "7", "8", "9">>

\* the n-th name of the series, "SINV-01", "SINV-02", ...
SeriesName(n) == SinvPrefix \o <<DigitChars[(n \div 10) + 1], DigitChars[(n % 10) + 1]>>

\* amounts 1.00, 2.00 and 2.50 against invoices of 1.00
CapAmounts == {10000, 20000, 25000}

InitCap ==
    /\ invoices = <<>>
    /\ \E amount \in CapAmounts :
         hib_trans_doc = [name |-> "T1", purpose |-> <<>>, amount |-> amount,
                          customer |-> <<"K", "1">>, counterparty_iban |-> "DE01",
                          counterparty_bic |-> "BIC1", status |-> "new"]
    /\ bank_accounts = {}
    /\ banks = {}
    /\ payment_entries = <<>>
    /\ BatchIdle
    /\ settings = [auto_submit_payment_entry |-> FALSE]
    /\ matching_list = NoMatching
    /\ thrown = ""
    /\ args = NoCall
    /\ ret = NoCall

\* a Sales Invoice is submitted for the customer
InsertInvoice ==
    /\ Len(invoices) < MaxBulkInvoices
    /\ invoices' = Append(invoices, Invoice(SeriesName(Len(invoices) + 1), "Unpaid",
                                            <<"K", "1">>, 10000))
    /\ UNCHANGED <<hib_trans_doc, bank_accounts, banks, payment_entries, settings, batchVars,
                   matching_list, thrown, args, ret>>

\* find_matching_invoices_for_customer_payment never raises: what it returns
CallFindMatching ==
    /\ args' = [fn |-> "find_matching_invoices_for_customer_payment",
                candidates |-> Len(SelectSeq(invoices,
                                   LAMBDA si : si.grand_total <= hib_trans_doc.amount))]
    /\ ret' = [fn |-> "find_matching_invoices_for_customer_payment",
               raised |-> FALSE,
               result |-> find_matching_invoices_for_customer_payment(
                              hib_trans_doc, _get_unpaid_sinv_names(invoices),
                              hib_trans_doc.customer, invoices)]
    /\ UNCHANGED dbVars

NextCap == InsertInvoice \/ CallFindMatching

SpecCap == InitCap /\ [][NextCap]_vars

\* C9: handed more than 30 candidate invoices, the customer tier does not search but
\* fails with a "too many candidates" error
C9_SolverBounded ==
    (/\ ret # NoCall
     /\ ret.fn = "find_matching_invoices_for_customer_payment"
     /\ args.candidates > 30) =>
        ret.raised

(***************************************************************************)
(* SpecBook: make_payment_entry called, as match_all_payments and          *)
(* match_hibiscus_transaction call it, on the invoices a match lists       *)
(***************************************************************************)
MaxBookInvoices == 3   \* invoices listed in the matching_list
MaxBookings == 2       \* calls of make_payment_entry for the transaction

\* amounts 1.00 and 4.00 against invoices of 1.00 and 2.00
BookAmounts == {10000, 40000}

BookTotals == {10000, 20000}

BookAccounts == {"Debitors", "Debitors2"}

\* the k-th invoice listed; the first one is of customer K1 and account Debitors
BookInvoice(k, customer, debit_to, total) ==
    [Invoice(SeriesName(k), "Unpaid", customer, total) EXCEPT !.debit_to = debit_to]

BookTables ==
    {db \in SeqsUpTo({[customer |-> cu, debit_to |-> d, total |-> gt] :
                         cu \in MainCustomers, d \in BookAccounts, gt \in BookTotals},
                     MaxBookInvoices) :
        /\ Len(db) >= 1
        /\ db[1].customer = <<"K", "1">>
        /\ db[1].debit_to = "Debitors"}

\* the matching_list of a loose match that lists every invoice of the table
BookMatching(trans, db) ==
    [NewMatchingList(trans) EXCEPT !.sinvs_loose = [k \in 1..Len(db) |-> db[k].name],
                                   !.sinvs_matched_loose = TRUE,
                                   !.totals_matched = TRUE]

InitBook ==
    /\ \E t \in BookTables :
         invoices = [k \in 1..Len(t) |->
                        BookInvoice(k, t[k].customer, t[k].debit_to, t[k].total)]
    /\ \E amount \in BookAmounts :
         hib_trans_doc = [name |-> "T1", purpose |-> <<>>, amount |-> amount,
                          customer |-> <<>>, counterparty_iban |-> "DE01",
                          counterparty_bic |-> "BIC1", status |-> "new"]
    /\ bank_accounts = {}
    /\ banks = {}
    /\ payment_entries = <<>>
    /\ BatchIdle
    /\ settings \in {[auto_submit_payment_entry |-> b] : b \in BOOLEAN}
    /\ matching_list = NoMatching
    /\ thrown = ""
    /\ args = NoCall
    /\ ret = NoCall

\* the state after make_payment_entry gave b
MakePaymentEntryReturned(b, st, save_fails) ==
    /\ ret' = [fn |-> "make_payment_entry", pe |-> b.pe, stored |-> b.stored,
               msgs |-> b.msgs, other_account_sinv |-> st.other_account_sinv,
               error |-> st.error, save_fails |-> save_fails]
    /\ payment_entries' = payment_entries \o b.stored
    /\ hib_trans_doc' = b.trans
    /\ invoices' = b.db

\* make_payment_entry(matching_list) with the settings of the site; pe_doc.save() in
\* the loop may raise at one of the invoices
CallMakePaymentEntry ==
    /\ Len(payment_entries) < MaxBookings
    /\ matching_list' = [called |-> TRUE, raised |-> FALSE,
                         value |-> BookMatching(hib_trans_doc, invoices)]
    /\ \E save_fails \in {{}} \cup {{invoices[k].name} : k \in 1..Len(invoices)} :
         MakePaymentEntryReturned(
             make_payment_entry(matching_list'.value, hib_trans_doc, invoices,
                                settings.auto_submit_payment_entry, save_fails),
             BookingLoop(Todo(matching_list'.value),
                         [pe |-> NewPaymentEntry(matching_list'.value, hib_trans_doc),
                          stored |-> <<>>, error |-> <<>>, other_account_sinv |-> <<>>,
                          raised |-> FALSE],
                         invoices, save_fails),
             save_fails)
    /\ args' = Snapshot
    /\ UNCHANGED <<bank_accounts, banks, settings, thrown, batchVars>>

\* the booking engine is reached from make_payment_entry's callers; the interactive one,
\* match_hibiscus_transaction, classifies first and books only a match
NextBook == CallMakePaymentEntry \/ MatchHibiscusTransaction

SpecBook == InitBook /\ [][NextBook]_vars

\* make_payment_entry has returned; args holds the database it started from
Booking == ret # NoCall /\ ret.fn = "make_payment_entry"

\* the k-th invoice of the todo list differs from the first one in customer or in
\* receivables account
Differs(db, k) ==
    \/ db[k].customer # db[1].customer
    \/ db[k].debit_to # db[1].debit_to

\* the payment is larger than all that is outstanding: the loop is not left because
\* everything is allocated
NotExhausted(trans, db) ==
    trans.amount > SumSeq([k \in 1..Len(db) |-> db[k].outstanding_amount])

Referenced(pe, name) ==
    \E r \in 1..Len(pe.references) : pe.references[r].reference_name = name

\* C12: an invoice after the first whose customer or receivables account differs from
\* the first one's is set aside in the skipped bucket, every other invoice of the todo
\* list is still added to the payment, and the skipped set is reported at the end
C12_DifferingInvoiceSetAside ==
    (Booking /\ ret.save_fails = {} /\ NotExhausted(args.trans, args.db)) =>
        /\ \A k \in 2..Len(args.db) :
             Differs(args.db, k) => Contains(ret.other_account_sinv, args.db[k].name)
        /\ \A k \in 1..Len(args.db) :
             ~Differs(args.db, k) => Referenced(ret.pe, args.db[k].name)
        /\ (\E k \in 2..Len(args.db) : Differs(args.db, k)) => ret.msgs # <<>>

\* every allocation row of pe refers to an invoice of the payment's party and of the
\* payment's paid_from account
UniformAllocations(pe, db) ==
    \A r \in 1..Len(pe.references) :
        /\ GetDoc(db, pe.references[r].reference_name).customer = pe.party
        /\ GetDoc(db, pe.references[r].reference_name).debit_to = pe.paid_from

\* C13: the allocation rows of a payment record, in memory or stored, all refer to
\* invoices of one customer (the party) and one receivables account (paid_from)
C13_AllocationsUniform ==
    Booking =>
        /\ UniformAllocations(ret.pe, invoices)
        /\ \A i \in 1..Len(payment_entries) : UniformAllocations(payment_entries[i], invoices)

\* C13 witness: two invoices were allocated while one of another account was set aside
C13_Witness ==
    /\ Booking
    /\ Len(ret.pe.references) >= 2
    /\ ret.other_account_sinv # <<>>
    /\ payment_entries # <<>>

\* the payment record was submitted by the call
Submitted == ret.pe.docstatus = 1

\* the conditions of finalization hold for the payment record
AmountsAgree(pe) ==
    /\ pe.difference_amount = 0
    /\ pe.unallocated_amount + pe.total_allocated_amount = pe.paid_amount

Finalized ==
    \E i \in 1..Len(payment_entries) :
        /\ payment_entries[i].docstatus = 1
        /\ payment_entries[i].hibiscus_connect_transaction = hib_trans_doc.name

\* C15: the transaction's status is 'auto booked' exactly when a payment record of it
\* has been submitted; otherwise (no match, booking error, invoices set aside,
\* finalization conditions failing) it keeps its value 'new'
C15_AutoBookedIffFinalized ==
    /\ hib_trans_doc.status = "auto booked" <=> Finalized
    /\ ~Finalized => hib_trans_doc.status = "new"

\* C15 witness: a call of make_payment_entry submitted the payment and the transaction
\* is 'auto booked'
C15_Witness ==
    /\ Booking
    /\ Submitted
    /\ args.trans.status = "new"
    /\ hib_trans_doc.status = "auto booked"

\* the allocation rows stored for the transaction, over all its Payment Entries
StoredRows ==
    Concat([i \in 1..Len(payment_entries) |->
              [r \in 1..Len(payment_entries[i].references) |->
                  payment_entries[i].references[r].reference_name]])

\* C16: after any sequence of bookings, the transaction has at most one payment record
\* and each invoice at most one allocation row
C16_BookingIdempotent ==
    /\ Len(payment_entries) <= 1
    /\ \A i, j \in 1..Len(StoredRows) : StoredRows[i] = StoredRows[j] => i = j

(***************************************************************************)
(* SpecAccounts: create_bank_account_for_customer called again and again   *)
(***************************************************************************)
AccountIbans == {"DE01", "DE02"}

AccountBics == {"BIC1", "BIC2"}

\* K9 is no Customer of the site
AccountCustomers == MainCustomers \cup {<<"K", "9">>}

InitAccounts ==
    /\ invoices = <<>>
    /\ hib_trans_doc = NoTrans
    /\ bank_accounts = {}
    /\ banks \in {{}, {[name |-> "Bank1", swift_number |-> "BIC1"]}}
    /\ payment_entries = <<>>
    /\ BatchIdle
    /\ settings = [auto_submit_payment_entry |-> FALSE]
    /\ matching_list = NoMatching
    /\ thrown = ""
    /\ args = NoCall
    /\ ret = NoCall

\* what the call returns: the early return for a known IBAN; frappe.get_doc("Customer",
\* customer) raises for an unknown customer; otherwise the account is created
BankAccountResult(customer, iban) ==
    IF AccountsWithIban(bank_accounts, iban) # {}
    THEN Returned("Bankkonto bereits vorhanden.")
    ELSE IF customer \notin MainCustomers THEN Raised("DoesNotExistError")
    ELSE Returned("Bankkonto erfolgreich erstellt.")

BankAccountTables(r, created) ==
    /\ ret' = [fn |-> "create_bank_account_for_customer", raised |-> r.raised,
               result |-> r.value]
    /\ thrown' = r.message
    /\ bank_accounts' = IF r.raised THEN bank_accounts ELSE created.bank_accounts
    /\ banks' = IF r.raised THEN banks ELSE created.banks

CallCreateBankAccount ==
    \E customer \in AccountCustomers, iban \in AccountIbans, bic \in AccountBics :
        /\ args' = [fn |-> "create_bank_account_for_customer", customer |-> customer,
                    iban |-> iban, bic |-> bic, accounts |-> bank_accounts,
                    bank_table |-> banks]
        /\ BankAccountTables(BankAccountResult(customer, iban),
                             create_bank_account_for_customer(customer, iban, bic,
                                                              bank_accounts, banks))
        /\ UNCHANGED <<invoices, hib_trans_doc, payment_entries, settings, matching_list,
                       batchVars>>

NextAccounts == CallCreateBankAccount

SpecAccounts == InitAccounts /\ [][NextAccounts]_vars

AccountCalled == ret # NoCall /\ ret.fn = "create_bank_account_for_customer"

\* C17: a call for an IBAN that already has a bank account creates no bank account
\* and no bank and raises no error; there is at most one bank account per IBAN and at
\* most one bank per BIC
C17_ProvisioningIdempotent ==
    /\ (AccountCalled /\ AccountsWithIban(args.accounts, args.iban) # {}) =>
          /\ bank_accounts = args.accounts
          /\ banks = args.bank_table
          /\ ~ret.raised
    /\ \A a, b \in bank_accounts : a.iban = b.iban => a = b
    /\ \A a, b \in banks : a.swift_number = b.swift_number => a = b

\* C17 witness: a second IBAN with the same unknown BIC was provisioned, and a call for
\* a known IBAN with a customer that does not exist returned without an error
C17_Witness ==
    /\ AccountCalled
    /\ AccountsWithIban(args.accounts, args.iban) # {}
    /\ args.customer \notin MainCustomers
    /\ ~ret.raised
    /\ \E a, b \in bank_accounts : a.iban # b.iban /\ a.bank = b.bank /\ a.bank # "Bank1"

(***************************************************************************)
(* SpecBatch: match_all_payments over the new transactions                 *)
(***************************************************************************)
MaxBatch == 2   \* transactions in the table

\* "SINV-12" (a full invoice id), "23" (a bare number), "k1K2" (two customer ids),
\* "x" (nothing known)
BatchPurposes == MainTokens \cup {<<"x">>}

\* the k-th transaction of the table
BatchTransaction(k, purpose) ==
    [name |-> <<"T", DigitChars[k + 1]>>, purpose |-> purpose, amount |-> 10000,
     customer |-> <<>>, counterparty_iban |-> "DE01", counterparty_bic |-> "BIC1",
     status |-> "new"]

InitBatch ==
    /\ \E c12 \in MainCustomers, c23 \in MainCustomers :
         invoices = <<Invoice(SinvPrefix \o <<"1", "2">>, "Unpaid", c12, 10000),
                      Invoice(SinvPrefix \o <<"2", "3">>, "Unpaid", c23, 10000)>>
    /\ \E ps \in SeqsUpTo(BatchPurposes, MaxBatch) :
         /\ ps # <<>>
         /\ transactions = [k \in 1..Len(ps) |-> BatchTransaction(k, ps[k])]
    /\ hib_trans_doc = NoTrans
    /\ bank_accounts = {}
    /\ banks = {}
    /\ payment_entries = <<>>
    /\ settings \in {[auto_submit_payment_entry |-> b] : b \in BOOLEAN}
    /\ matching_list = NoMatching
    /\ thrown = ""
    /\ args = NoCall
    /\ ret = NoCall
    /\ job = NoJob
    /\ fetches = NoFetches
    /\ ledger = NoLedger

\* the tables a batch works on
Tables ==
    [invoices |-> invoices, transactions |-> transactions, bank_accounts |-> bank_accounts,
     banks |-> banks, payment_entries |-> payment_entries]

\* the rows of frappe.get_all(... status "new", amount > 0): their positions in the table
NewPayments(table) ==
    SelectSeq([k \in 1..Len(table) |-> k],
              LAMBDA k : table[k].status = "new" /\ table[k].amount > 0)

\* the batch is over: raised, the message, the tables and the number of transactions
\* for which match_payment returned
BatchResult(raised, message, d, processed) ==
    [raised |-> raised, message |-> message, d |-> d, processed |-> processed]

\* the tables after the payment of transaction i was booked (b) and the bank account
\* of its counterparty provisioned (acc)
BatchTables(d, i, b, acc) ==
    [invoices |-> b.db,
     transactions |-> [d.transactions EXCEPT ![i] = b.trans],
     bank_accounts |-> acc.bank_accounts,
     banks |-> acc.banks,
     payment_entries |-> d.payment_entries \o b.stored]

RECURSIVE MatchAllLoop(_, _, _, _, _)
RECURSIVE MatchAllClassified(_, _, _, _, _, _)
RECURSIVE MatchAllBooked(_, _, _, _, _, _)
\* the for loop of match_all_payments over the rest of payments.  No statement of the
\* loop is inside a try: an exception of match_payment or make_payment_entry leaves
\* the function
MatchAllLoop(payments, unpaid_sinvs, d, auto_submit, processed) ==
    IF payments = <<>> THEN BatchResult(FALSE, "", d, processed)
    ELSE MatchAllClassified(payments, unpaid_sinvs, d, auto_submit, processed,
             match_payment(d.transactions[Head(payments)], unpaid_sinvs, <<>>,
                           d.invoices, d.bank_accounts))

MatchAllClassified(payments, unpaid_sinvs, d, auto_submit, processed, r) ==
    IF r.raised THEN BatchResult(TRUE, r.message, d, processed)
    ELSE IF ~r.value.totals_matched
    THEN MatchAllLoop(Tail(payments), unpaid_sinvs, d, auto_submit, processed + 1)
    ELSE MatchAllBooked(payments, unpaid_sinvs, d, auto_submit, processed + 1,
             make_payment_entry(r.value, d.transactions[Head(payments)], d.invoices,
                                auto_submit, {}))

MatchAllBooked(payments, unpaid_sinvs, d, auto_submit, processed, b) ==
    IF b.raised THEN BatchResult(TRUE, "DoesNotExistError", d, processed)
    ELSE MatchAllLoop(Tail(payments), unpaid_sinvs,
             BatchTables(d, Head(payments), b,
                 create_bank_account_for_customer(b.pe.party,
                     d.transactions[Head(payments)].counterparty_iban,
                     d.transactions[Head(payments)].counterparty_bic,
                     d.bank_accounts, d.banks)),
             auto_submit, processed)

match_all_payments(d, auto_submit) ==
    MatchAllLoop(NewPayments(d.transactions), _get_unpaid_sinv_numbers(d.invoices), d,
                 auto_submit, 0)

\* the state after the request: an exception rolls the request's writes back
MatchAllReturned(r) ==
    /\ ret' = [fn |-> "match_all_payments", raised |-> r.raised, processed |-> r.processed]
    /\ thrown' = r.message
    /\ invoices' = IF r.raised THEN invoices ELSE r.d.invoices
    /\ transactions' = IF r.raised THEN transactions ELSE r.d.transactions
    /\ bank_accounts' = IF r.raised THEN bank_accounts ELSE r.d.bank_accounts
    /\ banks' = IF r.raised THEN banks ELSE r.d.banks
    /\ payment_entries' = IF r.raised THEN payment_entries ELSE r.d.payment_entries

CallMatchAllPayments ==
    /\ Len(payment_entries) < MaxBookings
    /\ args' = [fn |-> "match_all_payments", payments |-> NewPayments(transactions)]
    /\ MatchAllReturned(match_all_payments(Tables, settings.auto_submit_payment_entry))
    /\ UNCHANGED <<hib_trans_doc, settings, matching_list, job, ledger, fetches>>

NextBatch == CallMatchAllPayments

SpecBatch == InitBatch /\ [][NextBatch]_vars

\* C18: a failure while classifying or booking one transaction does not abort a batch:
\* the batch does not raise and every transaction it fetched is processed
C18_BatchSurvivesFailure ==
    (ret # NoCall /\ ret.fn = "match_all_payments") =>
        /\ ~ret.raised
        /\ ret.processed = Len(args.payments)

(***************************************************************************)
(* Ledger matching (hibiscus_connect/api.py): the purpose's three-part     *)
(* code, the lookup in the Compusoft database and the status               *)
(***************************************************************************)
IsUpper(c) == \E k \in 1..Len(UpperLetters) : UpperLetters[k] = c

AllDigits(text) == \A k \in 1..Len(text) : IsDigit(text[k])

\* the pattern (\d{7})-([A-Z]{4})-(\d{6,7}) matches text at position i
CodeMatchesAt(text, i) ==
    /\ i + 18 <= Len(text)
    /\ AllDigits(SubSeq(text, i, i + 6))
    /\ text[i + 7] = "-"
    /\ \A k \in (i + 8)..(i + 11) : IsUpper(text[k])
    /\ text[i + 12] = "-"
    /\ AllDigits(SubSeq(text, i + 13, i + 18))

DigitValue(c) == (CHOOSE k \in 1..Len(DigitChars) : DigitChars[k] = c) - 1

RECURSIVE ToInt(_)
\* int(text) of a text of digits
ToInt(text) ==
    IF text = <<>> THEN 0
    ELSE 10 * ToInt(SubSeq(text, 1, Len(text) - 1)) + DigitValue(text[Len(text)])

\* the groups of the leftmost match at i; the last group takes a seventh digit if there
\* is one
CodeGroups(text, i) ==
    [found |-> TRUE,
     kunde_lbnr |-> ToInt(SubSeq(text, i, i + 6)),
     code |-> SubSeq(text, i + 8, i + 11),
     booking_nr |-> IF i + 19 <= Len(text) /\ IsDigit(text[i + 19])
                    THEN ToInt(SubSeq(text, i + 13, i + 19))
                    ELSE ToInt(SubSeq(text, i + 13, i + 18))]

\* re.search(pattern, tx.purpose or '')
SearchCode(text) ==
    IF \E i \in 1..Len(text) : CodeMatchesAt(text, i)
    THEN CodeGroups(text, CHOOSE i \in 1..Len(text) :
                              /\ CodeMatchesAt(text, i)
                              /\ \A j \in 1..(i - 1) : ~CodeMatchesAt(text, j))
    ELSE [found |-> FALSE]

Abs(x) == IF x < 0 THEN -x ELSE x

\* the Belob values of the PAYINFO rows of a customer and booking
PayinfoEntries(led, kunde_lbnr, booking_nr) ==
    LET rows == SelectSeq(led.payinfo,
                          LAMBDA p : p.KundLbnr = kunde_lbnr /\ p.BookingNr = booking_nr)
    IN  [k \in 1..Len(rows) |-> rows[k].Belob]

\* the partial-payment heuristic: compusoft_total / hibiscus_amount * 100 in [15, 35]
PartialOrMismatch(compusoft_total, hibiscus_amount) ==
    IF compusoft_total > 0 /\ hibiscus_amount > 0
    THEN IF 15 * hibiscus_amount <= 100 * compusoft_total
            /\ 100 * compusoft_total <= 35 * hibiscus_amount
         THEN [status |-> "Matched (Partial)", quality_score |-> 60]
         ELSE [status |-> "Matched (Mismatch)", quality_score |-> 40]
    ELSE [status |-> "Matched (Mismatch)", quality_score |-> 30]

\* faulty variant: the amounts compared before the PAYINFO rows are looked at
CompusoftStatus_amountsfirst(hibiscus_amount, payinfo_entries, kunde_info, reser_info) ==
    IF Abs(hibiscus_amount - SumSeq(payinfo_entries)) < 100
    THEN [status |-> "Matched (Perfect)", quality_score |-> 100]
    ELSE IF Abs(hibiscus_amount - SumSeq(payinfo_entries)) < 10000
    THEN [status |-> "Matched (Perfect)", quality_score |-> 95]
    ELSE IF payinfo_entries = <<>>
    THEN IF kunde_info /\ reser_info
         THEN [status |-> "Pending - Awaiting PAYINFO", quality_score |-> 0]
         ELSE [status |-> "No Match", quality_score |-> 0]
    ELSE PartialOrMismatch(SumSeq(payinfo_entries), hibiscus_amount)

\* status and quality: amounts in units of 0.0001, so 0.01 is 100 and 1.0 is 10000
CompusoftStatus(hibiscus_amount, payinfo_entries, kunde_info, reser_info) ==
    IF payinfo_entries = <<>>
    THEN IF kunde_info /\ reser_info
         THEN [status |-> "Pending - Awaiting PAYINFO", quality_score |-> 0]
         ELSE [status |-> "No Match", quality_score |-> 0]
    ELSE IF Abs(hibiscus_amount - SumSeq(payinfo_entries)) < 100
    THEN [status |-> "Matched (Perfect)", quality_score |-> 100]
    ELSE IF Abs(hibiscus_amount - SumSeq(payinfo_entries)) < 10000
    THEN [status |-> "Matched (Perfect)", quality_score |-> 95]
    ELSE PartialOrMismatch(SumSeq(payinfo_entries), hibiscus_amount)

\* what a call gives: raised, the returned dict, the transaction as stored, and whether
\* the Compusoft database was asked
LedgerResult(raised, status, match_status, tx, queried) ==
    [raised |-> raised, status |-> status, match_status |-> match_status, tx |-> tx,
     queried |-> queried]

\* match_data of a lookup: the parsed keys, the rows fetched, and the result; the score
\* is stored there as quality_score / 100, here kept in hundredths
MatchData(m, payinfo_entries, kunde_info, reser_info, st) ==
    [parsed_data |-> [kunde_lbnr |-> m.kunde_lbnr, booking_nr |-> m.booking_nr],
     payinfo_entries |-> payinfo_entries, kunde_info |-> kunde_info,
     reservierung_info |-> reser_info,
     match_result |-> [status |-> st.status, quality_score |-> st.quality_score]]

\* match_data of a purpose without the code
NoFormatData == [error |-> "Kein strukturiertes Format im Purpose-Feld gefunden"]

\* the transaction saved with the result of the lookup
LedgerClassified(tx, st, compusoft_total, match_data) ==
    LedgerResult(FALSE, "success", st.status,
                 [tx EXCEPT !.compusoft_match_status = st.status,
                            !.compusoft_match_data = match_data,
                            !.compusoft_match_score = st.quality_score,
                            !.compusoft_total_amount = compusoft_total],
                 TRUE)

\* the classification of what was fetched
LedgerDecided(tx, m, payinfo_entries, kunde_info, reser_info, st) ==
    LedgerClassified(tx, st, SumSeq(payinfo_entries),
                     MatchData(m, payinfo_entries, kunde_info, reser_info, st))

LedgerFetched(tx, m, payinfo_entries, kunde_info, reser_info) ==
    LedgerDecided(tx, m, payinfo_entries, kunde_info, reser_info,
                  CompusoftStatus(tx.amount, payinfo_entries, kunde_info, reser_info))

\* the lookup for the parsed code
LedgerLookup(tx, led, m, payinfo_entries) ==
    LedgerFetched(tx, m, payinfo_entries, m.kunde_lbnr \in led.campkund,
                  m.booking_nr \in led.reser)

\* match_hibiscus_transaction(transaction_id) of api.py.  The import is outside the
\* try; every other exception is caught, logged and returned as status "error"
api_match_hibiscus_transaction(tx, led) ==
    IF led.state = "missing" THEN LedgerResult(TRUE, "", "", tx, FALSE)
    ELSE IF ~SearchCode(tx.purpose).found
    THEN LedgerResult(FALSE, "error", "",
                      [tx EXCEPT !.compusoft_match_status = "No Match",
                                 !.compusoft_match_data = NoFormatData], FALSE)
    ELSE IF led.state = "down" THEN LedgerResult(FALSE, "error", "", tx, TRUE)
    ELSE LedgerLookup(tx, led, SearchCode(tx.purpose),
                      PayinfoEntries(led, SearchCode(tx.purpose).kunde_lbnr,
                                     SearchCode(tx.purpose).booking_nr))

\* the counters of a bulk run
NoResults(total) ==
    [total |-> total, matched_perfect |-> 0, matched_partial |-> 0, matched_mismatch |-> 0,
     pending_payinfo |-> 0, no_match |-> 0, errors |-> 0]

\* one transaction counted; only the job counts the pending ones
Counted(results, r, is_job) ==
    IF r.raised THEN [results EXCEPT !.errors = @ + 1]
    ELSE IF r.status # "success" THEN [results EXCEPT !.no_match = @ + 1]
    ELSE IF r.match_status = "Matched (Perfect)"
    THEN [results EXCEPT !.matched_perfect = @ + 1]
    ELSE IF r.match_status = "Matched (Partial)"
    THEN [results EXCEPT !.matched_partial = @ + 1]
    ELSE IF r.match_status = "Matched (Mismatch)"
    THEN [results EXCEPT !.matched_mismatch = @ + 1]
    ELSE IF r.match_status = "Pending - Awaiting PAYINFO" /\ is_job
    THEN [results EXCEPT !.pending_payinfo = @ + 1]
    ELSE IF r.match_status = "No Match" THEN [results EXCEPT !.no_match = @ + 1]
    ELSE results

\* the default filters of a bulk run: positive amount, older than a day ("old": one
\* or two days, "aged": three days or more), not matched yet; at most limit rows
BulkTransactions(table, limit) ==
    LET rows == SelectSeq([k \in 1..Len(table) |-> k],
                          LAMBDA k : /\ table[k].amount > 0
                                     /\ table[k].transaction_date \in {"old", "aged"}
                                     /\ table[k].compusoft_match_status \in {"Pending", ""})
    IN  SubSeq(rows, 1, IF Len(rows) < limit THEN Len(rows) ELSE limit)

RECURSIVE BulkLoop(_, _, _, _, _)
RECURSIVE BulkCounted(_, _, _, _, _, _)
\* for tx in transactions: try: match_hibiscus_transaction(tx.name) ... except: errors
BulkLoop(todo, table, led, results, is_job) ==
    IF todo = <<>> THEN [table |-> table, results |-> results]
    ELSE BulkCounted(todo, table, led, results, is_job,
                     api_match_hibiscus_transaction(table[Head(todo)], led))

BulkCounted(todo, table, led, results, is_job, r) ==
    BulkLoop(Tail(todo), [table EXCEPT ![Head(todo)] = r.tx], led,
             Counted(results, r, is_job), is_job)

bulk_match_transactions(table, led, limit) ==
    BulkLoop(BulkTransactions(table, limit), table, led,
             NoResults(Len(BulkTransactions(table, limit))), FALSE)

(***************************************************************************)
(* SpecLedger: transactions matched against the Compusoft database, singly *)
(* and in bulk                                                             *)
(***************************************************************************)
MaxLedgerTx == 2   \* transactions in the table
MaxPayinfo == 2    \* PAYINFO rows of the booking

\* "1234567-ABCD-123456", the same in lower case, and a purpose without a code
LedgerPurposes ==
    {<<"1", "2", "3", "4", "5", "6", "7", "-", "A", "B", "C", "D", "-",
       "1", "2", "3", "4", "5", "6">>,
     <<"1", "2", "3", "4", "5", "6", "7", "-", "a", "b", "c", "d", "-",
       "1", "2", "3", "4", "5", "6">>,
     <<"x">>}

\* amounts 0.50 and 100.00
LedgerAmounts == {5000, 1000000}

\* Belob 25.00, 99.50 and 100.00
Belobs == {250000, 995000, 1000000}

LedgerTransaction(k, purpose, amount, date) ==
    [name |-> <<"T", DigitChars[k + 1]>>, purpose |-> purpose, amount |-> amount,
     transaction_date |-> date, compusoft_match_status |-> "",
     compusoft_match_data |-> <<>>, compusoft_match_score |-> 0,
     compusoft_total_amount |-> 0]

PayinfoRow(belob) == [KundLbnr |-> 1234567, BookingNr |-> 123456, Belob |-> belob]

\* the databases: a reachable one with rows of the one booking, or one that cannot be
\* asked
Ledgers ==
    {[state |-> "ok", payinfo |-> [k \in 1..Len(bs) |-> PayinfoRow(bs[k])],
      campkund |-> ck, reser |-> rs] :
        bs \in SeqsUpTo(Belobs, MaxPayinfo), ck \in {{}, {1234567}}, rs \in {{}, {123456}}}
    \cup {[NoLedger EXCEPT !.state = st] : st \in {"down", "missing"}}

\* transactions older than a day, and one of today
LedgerInputs ==
    {[purpose |-> p, amount |-> a, date |-> "old"] :
        p \in LedgerPurposes, a \in LedgerAmounts}
    \cup {[purpose |-> <<"x">>, amount |-> 5000, date |-> "today"]}

InitLedger ==
    /\ invoices = <<>>
    /\ hib_trans_doc = NoTrans
    /\ bank_accounts = {}
    /\ banks = {}
    /\ payment_entries = <<>>
    /\ settings = [auto_submit_payment_entry |-> FALSE]
    /\ matching_list = NoMatching
    /\ thrown = ""
    /\ args = NoCall
    /\ ret = NoCall
    /\ job = NoJob
    /\ fetches = NoFetches
    /\ ledger \in Ledgers
    /\ \E ts \in SeqsUpTo(LedgerInputs, MaxLedgerTx) :
         /\ ts # <<>>
         /\ transactions = [k \in 1..Len(ts) |->
                              LedgerTransaction(k, ts[k].purpose, ts[k].amount, ts[k].date)]

\* match_hibiscus_transaction(transaction_id) called for the k-th transaction
LedgerReturned(k, r) ==
    /\ ret' = [fn |-> "match_hibiscus_transaction", raised |-> r.raised,
               status |-> r.status, match_status |-> r.match_status,
               queried |-> r.queried]
    /\ thrown' = IF r.raised THEN "ImportError" ELSE ""
    /\ transactions' = [transactions EXCEPT ![k] = r.tx]

CallMatchTransaction ==
    \E k \in 1..Len(transactions) :
        /\ args' = [fn |-> "match_hibiscus_transaction", tx |-> transactions[k]]
        /\ LedgerReturned(k, api_match_hibiscus_transaction(transactions[k], ledger))
        /\ UNCHANGED <<invoices, hib_trans_doc, bank_accounts, banks, payment_entries,
                       settings, matching_list, job, ledger, fetches>>

\* bulk_match_transactions() with the default filters
BulkReturned(b) ==
    /\ ret' = [fn |-> "bulk_match_transactions", raised |-> FALSE, results |-> b.results]
    /\ transactions' = b.table

CallBulkMatchTransactions ==
    /\ args' = [fn |-> "bulk_match_transactions",
                todo |-> BulkTransactions(transactions, MaxLedgerTx),
                table |-> transactions]
    /\ BulkReturned(bulk_match_transactions(transactions, ledger, MaxLedgerTx))
    /\ UNCHANGED <<invoices, hib_trans_doc, bank_accounts, banks, payment_entries,
                   settings, matching_list, thrown, job, ledger, fetches>>

NextLedger == CallMatchTransaction \/ CallBulkMatchTransactions

SpecLedger == InitLedger /\ [][NextLedger]_vars

\* the last step was a single match_hibiscus_transaction call that returned
LedgerCalled == ret # NoCall /\ ret.fn = "match_hibiscus_transaction" /\ ~ret.raised

\* the transaction of the last call as it is stored now
StoredTx ==
    CHOOSE t \in {transactions[k] : k \in 1..Len(transactions)} : t.name = args.tx.name

\* the code of the last call's purpose and what the database holds for it
CalledCode == SearchCode(args.tx.purpose)
CalledEntries == PayinfoEntries(ledger, CalledCode.kunde_lbnr, CalledCode.booking_nr)
CalledKnown == CalledCode.kunde_lbnr \in ledger.campkund /\ CalledCode.booking_nr \in ledger.reser
CalledDifference == Abs(args.tx.amount - SumSeq(CalledEntries))
CalledRatioInRange ==
    /\ 15 * args.tx.amount <= 100 * SumSeq(CalledEntries)
    /\ 100 * SumSeq(CalledEntries) <= 35 * args.tx.amount

\* a purpose without the code: "No Match" stored, the database not asked
NoCodeNoLookup ==
    LedgerCalled /\ ~CalledCode.found
        => StoredTx.compusoft_match_status = "No Match" /\ ~ret.queried

\* C20 as stated: for a purpose with the code the status is Perfect when the difference
\* is below 1.0, Pending when there are no rows but customer and reservation exist,
\* Partial when the ratio of ledger sum to amount is within [15%, 35%], Mismatch
\* otherwise; a purpose without the code is "No Match" without a lookup.
C20_Original ==
    /\ NoCodeNoLookup
    /\ LedgerCalled /\ CalledCode.found /\ ledger.state = "ok"
        => StoredTx.compusoft_match_status =
             IF CalledDifference < 10000 THEN "Matched (Perfect)"
             ELSE IF CalledEntries = <<>> /\ CalledKnown THEN "Pending - Awaiting PAYINFO"
             ELSE IF CalledRatioInRange THEN "Matched (Partial)"
             ELSE "Matched (Mismatch)"

\* C20 amended: for a purpose with the code and a database that answers, the status is
\* decided in this order: without PAYINFO rows it is Pending when customer and
\* reservation both exist and "No Match" otherwise; with rows it is Perfect when the
\* difference is below 1.0 (score 100 below 0.01, else 95), else Partial (score 60) when
\* both sums are positive and the ratio is within [15%, 35%], else Mismatch; a purpose
\* without the code is "No Match" without a lookup.
C20_StatusRules ==
    /\ NoCodeNoLookup
    /\ LedgerCalled /\ CalledCode.found /\ ledger.state = "ok"
        => /\ ret.queried
           /\ StoredTx.compusoft_match_status = ret.match_status
           /\ CalledEntries = <<>>
                => /\ CalledKnown => ret.match_status = "Pending - Awaiting PAYINFO"
                   /\ ~CalledKnown => ret.match_status = "No Match"
                   /\ StoredTx.compusoft_match_score = 0
           /\ CalledEntries # <<>> /\ CalledDifference < 10000
                => /\ ret.match_status = "Matched (Perfect)"
                   /\ StoredTx.compusoft_match_score =
                        IF CalledDifference < 100 THEN 100 ELSE 95
           /\ CalledEntries # <<>> /\ CalledDifference >= 10000
                => /\ CalledRatioInRange /\ args.tx.amount > 0
                        => /\ ret.match_status = "Matched (Partial)"
                           /\ StoredTx.compusoft_match_score = 60
                   /\ ~(CalledRatioInRange /\ args.tx.amount > 0)
                        => /\ ret.match_status = "Matched (Mismatch)"
                           /\ StoredTx.compusoft_match_score \in {30, 40}

\* a transaction with the code, nothing about it in the database: "No Match"
C20_Witness ==
    /\ LedgerCalled /\ CalledCode.found /\ ledger.state = "ok"
    /\ CalledEntries = <<>> /\ ~CalledKnown
    /\ StoredTx.compusoft_match_status = "No Match"

(***************************************************************************)
(* SpecJob: the bulk matching background job.  Requests and the worker     *)
(* run in different processes and share the cache entry matching_job_info; *)
(* job counts, per position in the code, the start requests and the jobs:  *)
(*   cache     status in the cache entry, "none" without an entry          *)
(*   passed    start requests past the is_running test, before enqueue     *)
(*   enqueued  start requests past enqueue, before the cache is set        *)
(*   queued    jobs in the queue                                           *)
(*   running   jobs that set "running" and have not gone through the loop  *)
(*   looped    jobs past the loop, before "completed" is set               *)
(*   started   start requests that passed the test so far                  *)
(***************************************************************************)
MaxJobs == 2   \* start requests that pass the test

\* get_matching_job_status(): is_running = status in ["queued", "running"]
get_matching_job_status(cache) ==
    [is_running |-> cache \in {"queued", "running"}, status |-> cache]

\* the loop of the job: the same as the bulk run, the pending ones counted as well
bulk_match_transactions_job(table, led, limit) ==
    BulkLoop(BulkTransactions(table, limit), table, led,
             NoResults(Len(BulkTransactions(table, limit))), TRUE)

InitJob ==
    /\ invoices = <<>>
    /\ hib_trans_doc = NoTrans
    /\ bank_accounts = {}
    /\ banks = {}
    /\ payment_entries = <<>>
    /\ settings = [auto_submit_payment_entry |-> FALSE]
    /\ matching_list = NoMatching
    /\ thrown = ""
    /\ args = NoCall
    /\ ret = NoCall
    /\ job = NoJob
    /\ fetches = NoFetches
    /\ ledger \in {led \in Ledgers : Len(led.payinfo) <= 1}
    /\ \E t \in LedgerInputs :
         transactions = <<LedgerTransaction(1, t.purpose, t.amount, t.date)>>

JobFrame ==
    UNCHANGED <<invoices, hib_trans_doc, bank_accounts, banks, payment_entries,
                settings, matching_list, thrown, args, ledger, fetches>>

\* start_bulk_matching_job up to the test of running_job.get("is_running"): rejected,
\* or on the way to enqueue.  jobs is the number of jobs queued or running at the test
StartChecked(status, jobs) ==
    /\ ret' = [fn |-> "start_bulk_matching_job", status |-> status, jobs |-> jobs]
    /\ job' = IF status.is_running THEN job
              ELSE [job EXCEPT !.passed = @ + 1, !.started = @ + 1]

StartCheck ==
    /\ job.started < MaxJobs
    /\ StartChecked(get_matching_job_status(job.cache),
                    job.queued + job.running + job.looped)
    /\ JobFrame
    /\ UNCHANGED transactions

\* job = frappe.enqueue(...)
StartEnqueue ==
    /\ job.passed > 0
    /\ job' = [job EXCEPT !.passed = @ - 1, !.enqueued = @ + 1, !.queued = @ + 1]
    /\ JobFrame
    /\ UNCHANGED <<transactions, ret>>

\* frappe.cache().set_value("matching_job_info", {... "status": "queued"})
StartRecord ==
    /\ job.enqueued > 0
    /\ job' = [job EXCEPT !.enqueued = @ - 1, !.cache = "queued"]
    /\ JobFrame
    /\ UNCHANGED <<transactions, ret>>

\* the worker takes a job: bulk_match_transactions_job sets "running"
WorkerBegin ==
    /\ job.queued > 0
    /\ job' = [job EXCEPT !.queued = @ - 1, !.running = @ + 1, !.cache = "running"]
    /\ JobFrame
    /\ UNCHANGED <<transactions, ret>>

\* the loop over the transactions; the progress written with the last one
WorkerLooped(b) ==
    /\ transactions' = b.table
    /\ ret' = [fn |-> "bulk_match_transactions_job", results |-> b.results]
    /\ job' = [job EXCEPT !.running = @ - 1, !.looped = @ + 1,
                          !.cache = IF b.results.total > 0 THEN "running" ELSE @]

WorkerLoop ==
    /\ job.running > 0
    /\ WorkerLooped(bulk_match_transactions_job(transactions, ledger, MaxLedgerTx))
    /\ JobFrame

\* job_info["status"] = "completed"
WorkerComplete ==
    /\ job.looped > 0
    /\ job' = [job EXCEPT !.looped = @ - 1, !.cache = "completed"]
    /\ JobFrame
    /\ UNCHANGED <<transactions, ret>>

\* the outer except: frappe.get_all or frappe.db.commit fails, "failed" is set
WorkerFail ==
    /\ \/ /\ job.running > 0
          /\ job' = [job EXCEPT !.running = @ - 1, !.cache = "failed"]
       \/ /\ job.looped > 0
          /\ job' = [job EXCEPT !.looped = @ - 1, !.cache = "failed"]
    /\ JobFrame
    /\ UNCHANGED <<transactions, ret>>

\* a poll of get_matching_job_status()
GetMatchingJobStatus ==
    /\ ret' = [fn |-> "get_matching_job_status",
               status |-> get_matching_job_status(job.cache)]
    /\ JobFrame
    /\ UNCHANGED <<transactions, job>>

\* clear_matching_job_status(): the cache entry deleted
ClearMatchingJobStatus ==
    /\ job' = [job EXCEPT !.cache = "none"]
    /\ ret' = [fn |-> "clear_matching_job_status", status |-> "success"]
    /\ JobFrame
    /\ UNCHANGED transactions

NextJob ==
    \/ StartCheck
    \/ StartEnqueue
    \/ StartRecord
    \/ WorkerBegin
    \/ WorkerLoop
    \/ WorkerComplete
    \/ WorkerFail
    \/ GetMatchingJobStatus
    \/ ClearMatchingJobStatus

SpecJob == InitJob /\ [][NextJob]_vars

\* C19: under any interleaving of start requests, polls, clear calls and worker steps
\* there are never two bulk matching jobs queued or running at once, and a start request
\* issued while a job is queued or running is rejected.
C19_NoOverlappingJobs ==
    /\ job.queued + job.running + job.looped <= 1
    /\ ret.fn = "start_bulk_matching_job" /\ ret.jobs > 0 => ret.status.is_running

\* the last step was a ledger batch that returned
BatchReturned == ret.fn \in {"bulk_match_transactions", "bulk_match_transactions_job"}

\* the rows of the last bulk run whose lookup failed: the Compusoft module cannot be
\* imported, or the purpose has a code and the Compusoft database does not answer
FailedLookups ==
    {k \in {args.todo[i] : i \in 1..Len(args.todo)} :
        \/ ledger.state = "missing"
        \/ SearchCode(args.table[k].purpose).found /\ ledger.state = "down"}

\* the rows of the last bulk run that come after a failed lookup
AfterFailure ==
    {args.todo[j] : j \in {j \in 1..Len(args.todo) :
        \E i \in 1..(j - 1) : args.todo[i] \in FailedLookups}}

\* C23: a transaction whose lookup fails in a batch is counted as an error, not as no
\* match or matched, its stored match status stays as it was, and the batch goes on
\* with the next transaction.
C23_LookupFailureCounted ==
    ret.fn = "bulk_match_transactions"
        => /\ ret.results.errors = Cardinality(FailedLookups)
           /\ ret.results.no_match + ret.results.matched_perfect
                + ret.results.matched_partial + ret.results.matched_mismatch
                <= ret.results.total - Cardinality(FailedLookups)
           /\ \A k \in FailedLookups :
                transactions[k].compusoft_match_status
                    = args.table[k].compusoft_match_status
           /\ \A k \in AfterFailure \ FailedLookups :
                transactions[k].compusoft_match_status # ""

\* C28: when a ledger batch returns, the outcome counters (perfect, partial, mismatch,
\* pending, no match, errors) add up to total.
C28_CountsPartition ==
    BatchReturned
        => ret.results.matched_perfect + ret.results.matched_partial
             + ret.results.matched_mismatch + ret.results.pending_payinfo
             + ret.results.no_match + ret.results.errors = ret.results.total

(***************************************************************************)
(* SpecSweep: the daily sweep over the pending transactions, next to       *)
(* single re-matches, the purpose update of the migration patch and the    *)
(* Compusoft system posting its rows.  Here the transactions stand in the  *)
(* order frappe.get_all returns them in without order_by, last modified    *)
(* first: a save moves the row to the front.                               *)
(***************************************************************************)
MaxSweepTx == 2   \* transactions in the table
SweepLimit == 1   \* rows of one sweep (limit=100 in the code)

\* position of the transaction of that name
IndexOf(table, name) == CHOOSE k \in 1..Len(table) : table[k].name = name

\* tx.save(): the row written and now the last modified one
Saved(table, k, tx) == <<tx>> \o SubSeq(table, 1, k - 1) \o SubSeq(table, k + 1, Len(table))

\* the table after match_hibiscus_transaction for row k gave r: nothing is saved when
\* the call raised or the lookup failed
Stored(table, k, r) ==
    IF ~r.raised /\ (r.status = "success" \/ ~r.queried) THEN Saved(table, k, r.tx)
    ELSE table

\* faulty variant: every pending transaction, whatever its date
PendingAged_anydate(table, limit) ==
    LET rows == SelectSeq(table, LAMBDA t :
                    t.compusoft_match_status = "Pending - Awaiting PAYINFO")
    IN  [i \in 1..(IF Len(rows) < limit THEN Len(rows) ELSE limit) |-> rows[i].name]

\* the names the sweep fetches: status pending, three days old or more, at most limit
PendingAged(table, limit) ==
    LET rows == SelectSeq(table, LAMBDA t :
                    /\ t.compusoft_match_status = "Pending - Awaiting PAYINFO"
                    /\ t.transaction_date = "aged")
    IN  [i \in 1..(IF Len(rows) < limit THEN Len(rows) ELSE limit) |-> rows[i].name]

NoSweepResults(total) ==
    [total |-> total, rematched |-> 0, now_matched |-> 0, still_pending |-> 0,
     errors |-> 0]

\* one re-match counted
SweepCounted(results, r) ==
    IF r.raised THEN [results EXCEPT !.errors = @ + 1]
    ELSE IF r.status # "success" THEN [results EXCEPT !.rematched = @ + 1]
    ELSE IF r.match_status \in {"Matched (Perfect)", "Matched (Partial)",
                                "Matched (Mismatch)"}
    THEN [results EXCEPT !.rematched = @ + 1, !.now_matched = @ + 1]
    ELSE IF r.match_status = "Pending - Awaiting PAYINFO"
    THEN [results EXCEPT !.rematched = @ + 1, !.still_pending = @ + 1]
    ELSE [results EXCEPT !.rematched = @ + 1]

RECURSIVE SweepLoop(_, _, _, _)
RECURSIVE SweepStep(_, _, _, _, _, _)
\* for tx in transactions: try: result = match_hibiscus_transaction(tx.name) ...
SweepLoop(names, table, led, results) ==
    IF names = <<>> THEN [table |-> table, results |-> results]
    ELSE SweepStep(names, table, led, results, IndexOf(table, Head(names)),
                   api_match_hibiscus_transaction(table[IndexOf(table, Head(names))], led))

SweepStep(names, table, led, results, k, r) ==
    SweepLoop(Tail(names), Stored(table, k, r), led, SweepCounted(results, r))

rematch_pending_transactions(table, led) ==
    SweepLoop(PendingAged(table, SweepLimit), table, led,
              NoSweepResults(Len(PendingAged(table, SweepLimit))))

\* "1234567-ABCD-123456", the same with the code broken by a blank, and "x"
SweepPurposes ==
    {<<"1", "2", "3", "4", "5", "6", "7", "-", "A", "B", "C", "D", "-",
       "1", "2", "3", "4", "5", "6">>,
     <<"1", "2", "3", "4", "5", "6", "7", "-", "A", "B", "C", "D", "-", " ",
       "1", "2", "3", "4", "5", "6">>,
     <<"x">>}

SweepInputs == {[purpose |-> p, date |-> d] : p \in SweepPurposes, d \in {"old", "aged"}}

InitSweep ==
    /\ invoices = <<>>
    /\ hib_trans_doc = NoTrans
    /\ bank_accounts = {}
    /\ banks = {}
    /\ payment_entries = <<>>
    /\ settings = [auto_submit_payment_entry |-> FALSE]
    /\ matching_list = NoMatching
    /\ thrown = ""
    /\ args = NoCall
    /\ ret = NoCall
    /\ job = NoJob
    /\ fetches = NoFetches
    /\ ledger \in {led \in Ledgers : led.payinfo = <<>> /\ led.state # "missing"}
    /\ \E ts \in SeqsUpTo(SweepInputs, MaxSweepTx) :
         /\ ts # <<>>
         /\ transactions = [k \in 1..Len(ts) |->
                              LedgerTransaction(k, ts[k].purpose, 1000000, ts[k].date)]

SweepFrame ==
    UNCHANGED <<invoices, hib_trans_doc, bank_accounts, banks, payment_entries,
                settings, matching_list, thrown, job, fetches>>

\* rematch_transaction(transaction_id)
Rematched(k, r) ==
    /\ ret' = [fn |-> "rematch_transaction", name |-> transactions[k].name]
    /\ transactions' = Stored(transactions, k, r)

RematchTransaction ==
    \E k \in 1..Len(transactions) :
        /\ args' = [fn |-> "rematch_transaction", name |-> transactions[k].name]
        /\ Rematched(k, api_match_hibiscus_transaction(transactions[k], ledger))
        /\ SweepFrame
        /\ UNCHANGED ledger

\* rematch_pending_transactions(), once a day
Swept(b, names) ==
    /\ ret' = [fn |-> "rematch_pending_transactions", swept |-> names,
               results |-> b.results]
    /\ transactions' = b.table

\* the scheduler calls the sweep; at: the day of the run, told apart from the run
\* before
SweepCalled ==
    args' = [fn |-> "rematch_pending_transactions", table |-> transactions,
             at |-> IF args.fn = "rematch_pending_transactions" THEN 1 - args.at ELSE 0]

RematchPending ==
    /\ SweepCalled
    /\ Swept(rematch_pending_transactions(transactions, ledger),
             PendingAged(transactions, SweepLimit))
    /\ SweepFrame
    /\ UNCHANGED ledger

\* the patch update_transaction_fields_from_hibiscus: the purpose replaced by a longer
\* one from the Hibiscus database
UpdatePurpose ==
    \E k \in 1..Len(transactions), new_purpose \in SweepPurposes :
        /\ Len(new_purpose) > Len(transactions[k].purpose)
        /\ transactions' = Saved(transactions, k,
                                 [transactions[k] EXCEPT !.purpose = new_purpose])
        /\ args' = [fn |-> "execute", name |-> transactions[k].name]
        /\ ret' = [fn |-> "execute"]
        /\ SweepFrame
        /\ UNCHANGED ledger

\* the Compusoft system books on its side: a PAYINFO row of the booking (the deposit
\* of 25.00 first, then the rest of 75.00 or another 25.00), the customer or the
\* reservation appears; no call of the program is under way
CompusoftPosts ==
    /\ ledger.state = "ok"
    /\ \/ /\ Len(ledger.payinfo) < MaxPayinfo
          /\ \E belob \in (IF ledger.payinfo = <<>> THEN {250000} ELSE {250000, 750000}) :
                ledger' = [ledger EXCEPT !.payinfo = Append(@, PayinfoRow(belob))]
       \/ /\ ledger.campkund = {}
          /\ ledger' = [ledger EXCEPT !.campkund = {1234567}]
       \/ /\ ledger.reser = {}
          /\ ledger' = [ledger EXCEPT !.reser = {123456}]
    /\ args' = NoCall
    /\ ret' = NoCall
    /\ SweepFrame
    /\ UNCHANGED transactions

NextSweep == RematchTransaction \/ RematchPending \/ UpdatePurpose \/ CompusoftPosts

SpecSweep == InitSweep /\ [][NextSweep]_vars

\* a full table of transactions with the code in the purpose, all three days old,
\* none classified yet
InitSweepLive ==
    /\ InitSweep
    /\ ledger.state = "ok"
    /\ Len(transactions) = MaxSweepTx
    /\ \A k \in 1..Len(transactions) :
         /\ SearchCode(transactions[k].purpose).found
         /\ transactions[k].transaction_date = "aged"

\* the scheduler runs the sweep again and again.  SweepCalled is always possible, always
\* changes args, and within NextSweep only RematchPending does it: the condition is weak
\* fairness of RematchPending
SpecSweepLive == InitSweepLive /\ [][NextSweep]_vars /\ WF_args(SweepCalled)

\* the scores a status carries
StatusScores(status) ==
    CASE status = "Matched (Perfect)" -> {95, 100}
      [] status = "Matched (Partial)" -> {60}
      [] status = "Matched (Mismatch)" -> {30, 40}
      [] OTHER -> {0}

\* the snapshot stored with a status: that of a lookup, with the status and the score
\* in it, or the note of the missing format next to "No Match"
SnapshotBelongs(t) ==
    IF t.compusoft_match_data = NoFormatData THEN t.compusoft_match_status = "No Match"
    ELSE /\ t.compusoft_match_data # <<>>
         /\ t.compusoft_match_data.match_result.status = t.compusoft_match_status
         /\ t.compusoft_match_data.match_result.quality_score = t.compusoft_match_score

\* C21: every classified transaction carries a score between 0 and 100 that belongs to
\* its status (0 for pending and no match) and a snapshot of that classification; none
\* keeps the score of an earlier classification next to a newer status.
C21_ScoreBelongsToStatus ==
    \A k \in 1..Len(transactions) :
        transactions[k].compusoft_match_status # ""
            => /\ transactions[k].compusoft_match_score \in 0..100
               /\ transactions[k].compusoft_match_score
                    \in StatusScores(transactions[k].compusoft_match_status)
               /\ SnapshotBelongs(transactions[k])

\* the last step was a sweep
SweepReturned == ret.fn = "rematch_pending_transactions"

SweptNames == {ret.swept[i] : i \in 1..Len(ret.swept)}

\* the row of that name before the sweep, and now
RowBefore(name) == args.table[IndexOf(args.table, name)]
RowNow(name) == transactions[IndexOf(transactions, name)]

\* C22: the sweep re-attempts only transactions that are pending and at least three
\* days old, each with the full classification, and touches no other transaction.
C22_SweepOnlyPendingAged ==
    SweepReturned
        => /\ Len(ret.swept) <= SweepLimit
           /\ \A k \in 1..Len(args.table) :
                LET t == args.table[k]
                IN  IF t.name \in SweptNames
                    THEN /\ t.compusoft_match_status = "Pending - Awaiting PAYINFO"
                         /\ t.transaction_date = "aged"
                         /\ \/ RowNow(t.name) = api_match_hibiscus_transaction(t, ledger).tx
                            \/ ledger.state = "down" /\ RowNow(t.name) = t
                    ELSE RowNow(t.name) = t

\* a swept transaction that left the pending status: the full classification ran
C22_Witness ==
    /\ SweepReturned
    /\ \E n \in SweptNames : RowNow(n).compusoft_match_status = "Matched (Perfect)"
    /\ \E k \in 1..Len(args.table) :
         /\ args.table[k].name \notin SweptNames
         /\ args.table[k].compusoft_match_status = "Pending - Awaiting PAYINFO"

\* pending and three days old or more
Eligible(name) ==
    /\ \E k \in 1..Len(transactions) : transactions[k].name = name
    /\ RowNow(name).compusoft_match_status = "Pending - Awaiting PAYINFO"
    /\ RowNow(name).transaction_date = "aged"

\* the last run classified the transaction again
Reclassified(name) ==
    \/ SweepReturned /\ name \in SweptNames
    \/ ret.fn = "rematch_transaction" /\ ret.name = name

\* C29: under repeated runs of the sweep every transaction that is pending and at least
\* three days old is eventually classified again; the limit of a run starves none.
C29_NoStarvation ==
    \A n \in {<<"T", DigitChars[k + 1]>> : k \in 1..MaxSweepTx} :
        Eligible(n) ~> Reclassified(n)

(***************************************************************************)
(* SpecScenario: a transaction over the invoices SINV-00042 (300.00) and   *)
(* SINV-00043 (450.00), the invoice numbers written in several ways        *)
(***************************************************************************)
Sinv42 == SinvPrefix \o <<"0", "0", "0", "4", "2">>
Sinv43 == SinvPrefix \o <<"0", "0", "0", "4", "3">>

\* "SINV 42 and SINV 43"
ScenarioPurpose == <<"S", "I", "N", "V", " ", "4", "2", " ", "a", "n", "d", " ", "S", "I", "N", "V", " ", "4", "3">>

\* the same invoices named by their full numbers, "00042 and 00043" and
\* "0 0042 and 00043", by one number, "00042", and by the short numbers alone, "42 43"
ScenarioPurposes ==
    {ScenarioPurpose,
     <<"0", "0", "0", "4", "2", " ", "a", "n", "d", " ", "0", "0", "0", "4", "3">>,
     <<"0", " ", "0", "0", "4", "2", " ", "a", "n", "d", " ", "0", "0", "0", "4", "3">>,
     <<"0", "0", "0", "4", "2">>,
     <<"4", "2", " ", "4", "3">>}

\* amounts 750.00 and 300.00
ScenarioAmounts == {7500000, 3000000}

ScenarioTables ==
    {<<Invoice(Sinv42, st1, <<"K", "1">>, 3000000), Invoice(Sinv43, st2, cu, 4500000)>> :
        st1 \in {"Unpaid", "Paid"}, st2 \in {"Unpaid", "Paid"},
        cu \in {<<"K", "1">>, <<"K", "2">>}}

InitScenario ==
    /\ invoices \in ScenarioTables
    /\ \E purpose \in ScenarioPurposes, amount \in ScenarioAmounts,
          customer \in {<<>>, <<"K", "1">>} :
         hib_trans_doc = [name |-> "T1", purpose |-> purpose, amount |-> amount,
                          customer |-> customer, counterparty_iban |-> "DE01",
                          counterparty_bic |-> "BIC1", status |-> "new"]
    /\ bank_accounts = {}
    /\ banks = {[name |-> "Bank1", swift_number |-> "BIC1"]}
    /\ payment_entries = <<>>
    /\ BatchIdle
    /\ settings \in {[auto_submit_payment_entry |-> b] : b \in BOOLEAN}
    /\ matching_list = NoMatching
    /\ thrown = ""
    /\ args = NoCall
    /\ ret = NoCall

SpecScenario == InitScenario /\ [][Next]_vars

\* the transaction and the invoices of scenario B, as the last call found them
ScenarioB ==
    /\ args # NoCall
    /\ args.trans.purpose = ScenarioPurpose
    /\ args.trans.amount = 7500000
    /\ \A k \in 1..Len(args.db) : args.db[k].status = "Unpaid"

\* C24: for amount 750.00, purpose "SINV 42 and SINV 43" and the open invoices
\* SINV-00042 (300.00) and SINV-00043 (450.00), match_payment reports the loose match
\* with exactly these two invoices, and the booking creates two allocations that add
\* up to 750.00.
C24_ScenarioLooseMatch ==
    ScenarioB /\ matching_list.called
        => /\ ~matching_list.raised
           /\ matching_list.value.sinvs_matched_loose
           /\ ~matching_list.value.sinvs_matched_strict
           /\ matching_list.value.sinvs_loose = <<Sinv42, Sinv43>>
           /\ ret # NoCall
                => /\ payment_entries # <<>>
                   /\ Len(payment_entries[1].references) = 2
                   /\ payment_entries[1].total_allocated_amount = 7500000

\* make_payment_entry has returned, pe_doc.save() was called with the allocation row of
\* the invoice in save_fails and raised
SaveRaised ==
    /\ Booking
    /\ \E n \in ret.save_fails : Referenced(ret.pe, n)

\* the stored payment record holds the allocation row of every invoice of the returned
\* document whose save did not raise
StoredHoldsSucceeded ==
    /\ Len(ret.stored) = 1
    /\ \A r \in 1..Len(ret.pe.references) :
         ret.pe.references[r].reference_name \notin ret.save_fails
             => Referenced(ret.stored[1], ret.pe.references[r].reference_name)

\* C25: when saving the payment record with a new allocation raises, the error is
\* appended to the error message and, at the end, a payment record with the allocations
\* that succeeded is stored rather than discarded or left unsaved
C25_PartialBookingSaved ==
    SaveRaised => /\ ret.error # <<>>
                  /\ StoredHoldsSucceeded

\* a job was started, every start request has written its record and returned, and
\* every enqueued worker has returned
JobsFinished ==
    /\ job.started > 0
    /\ job.passed + job.enqueued = 0
    /\ job.queued + job.running + job.looped = 0

\* C27: once the worker of a bulk-matching job has finished, under every interleaving
\* of start_bulk_matching_job's write of 'queued' with the worker's writes, the status
\* record is not left at 'queued' or 'running': polling reports is_running = false
C27_RecordEndsTerminal ==
    JobsFinished => ~get_matching_job_status(job.cache).is_running

\* the stored payment records p and q belong to two different transactions and both
\* hold an allocation row of one invoice
SharedInvoice(p, q) ==
    /\ p.hibiscus_connect_transaction # q.hibiscus_connect_transaction
    /\ \E r \in 1..Len(p.references) : Referenced(q, p.references[r].reference_name)

\* C26: after a run of match_all_payments no invoice has allocation rows from the
\* payment records of two different transactions of the batch, although the unpaid
\* numbers are fetched once before the loop
C26_NoInvoiceBookedTwice ==
    (ret # NoCall /\ ret.fn = "match_all_payments" /\ ~ret.raised) =>
        \A i, j \in 1..Len(payment_entries) :
            ~SharedInvoice(payment_entries[i], payment_entries[j])

(***************************************************************************)
(* SpecImport: get_transactions_for_account (hibiscus_connect/tools.py),   *)
(* run by the scheduled task and by the manual trigger                     *)
(* (hibiscus_connect/tasks.py) for the one account with auto_fetch         *)
(***************************************************************************)
MaxFetches == 2   \* runs of get_transactions_for_account per trigger

\* fetch_transactions_from_active_accounts and fetch_transactions_now
Triggers == {"Scheduled", "Manual"}

\* what the Hibiscus server holds for the account: the booking date is within the
\* last 30 days ("recent") or before ("old"); saldo "0.0" marks an incomplete one
HibiscusServer ==
    <<[id |-> 1, datum |-> "old", saldo |-> "1.0"],
      [id |-> 2, datum |-> "recent", saldo |-> "1.0"],
      [id |-> 3, datum |-> "recent", saldo |-> "0.0"]>>

\* hib.get_transactions(account_doc.hibiscus_id, von_dt, bis_dt); von is 2000-01-01
\* ("all") or 30 days back ("recent"), bis is today
get_transactions(von) ==
    SelectSeq(HibiscusServer, LAMBDA t : von = "all" \/ t.datum = "recent")

\* the document create_hibiscus_connect_transaction builds from hib_trans
create_hibiscus_connect_transaction(hib_trans, account) ==
    [bank_account |-> account, hibiscus_id |-> hib_trans.id,
     balance |-> hib_trans.saldo, transaction_date |-> hib_trans.datum]

\* doc.insert() into Hibiscus Connect Transaction: the doctype is described as a plain
\* record with an external identifier; a document whose hibiscus_id is already in the
\* table is stored as another row
Inserted(table, doc) == Append(table, doc)

\* frappe.db.exists("Hibiscus Connect Transaction", {"hibiscus_id": hibiscus_id})
ExistsHibiscusId(table, hibiscus_id) ==
    \E k \in 1..Len(table) : table[k].hibiscus_id = hibiscus_id

\* a trigger that is not in get_transactions_for_account; calls: its runs so far
IdleFetch(calls) ==
    [pc |-> "idle", todo |-> <<>>, fetched |-> 0, before |-> <<>>, calls |-> calls,
     stats |-> [new_count |-> 0, skipped_count |-> 0, error_count |-> 0]]

InitImport ==
    /\ invoices = <<>>
    /\ hib_trans_doc = NoTrans
    /\ bank_accounts = {}
    /\ banks = {}
    /\ payment_entries = <<>>
    /\ settings = [auto_submit_payment_entry |-> FALSE]
    /\ matching_list = NoMatching
    /\ thrown = ""
    /\ args = NoCall
    /\ ret = NoCall
    /\ transactions = <<>>
    /\ job = NoJob
    /\ ledger = NoLedger
    /\ fetches = [p \in Triggers |-> IdleFetch(0)]

ImportFrame ==
    UNCHANGED <<invoices, hib_trans_doc, bank_accounts, banks, payment_entries,
                settings, matching_list, thrown, job, ledger>>

\* _fetch_from_auto_fetch_accounts counts the account's transactions, then
\* get_transactions_for_account fetches the range from the server and starts its loop
FetchStart(p) ==
    /\ fetches[p].pc = "idle"
    /\ fetches[p].calls < MaxFetches
    /\ \E von \in IF p = "Scheduled" THEN {"recent"} ELSE {"all", "recent"} :
         /\ fetches' = [fetches EXCEPT ![p] =
                           [pc |-> "loop", todo |-> get_transactions(von),
                            fetched |-> Len(get_transactions(von)),
                            before |-> transactions, calls |-> @.calls + 1,
                            stats |-> IdleFetch(0).stats]]
         /\ args' = [fn |-> "get_transactions_for_account", trigger |-> p, von |-> von]
    /\ ret' = NoCall
    /\ ImportFrame
    /\ UNCHANGED transactions

\* hib.get_transactions raises: logged, frappe.throw; the caller records the error
FetchFails(p) ==
    /\ fetches[p].pc = "idle"
    /\ fetches[p].calls < MaxFetches
    /\ fetches' = [fetches EXCEPT ![p] = IdleFetch(@.calls + 1)]
    /\ args' = [fn |-> "get_transactions_for_account", trigger |-> p, von |-> "recent"]
    /\ ret' = [fn |-> "get_transactions_for_account", trigger |-> p, raised |-> TRUE]
    /\ ImportFrame
    /\ UNCHANGED transactions

\* the head of the loop for the next hib_trans: saldo "0.0" and a hibiscus_id that is
\* in the table are skipped, anything else goes on to the import
FetchCheck(p) ==
    /\ fetches[p].pc = "loop"
    /\ fetches[p].todo # <<>>
    /\ fetches' = [fetches EXCEPT ![p] =
           IF \/ Head(@.todo).saldo = "0.0"
              \/ ExistsHibiscusId(transactions, Head(@.todo).id)
           THEN [@ EXCEPT !.todo = Tail(@),
                          !.stats.skipped_count = @ + 1]
           ELSE [@ EXCEPT !.pc = "insert"]]
    /\ ImportFrame
    /\ UNCHANGED <<transactions, args, ret>>

\* try: create_hibiscus_connect_transaction(hib_trans, account); new_count += 1
\* except: error_count += 1
FetchInsert(p) ==
    /\ fetches[p].pc = "insert"
    /\ \/ /\ transactions' =
               Inserted(transactions,
                        create_hibiscus_connect_transaction(Head(fetches[p].todo), "A1"))
          /\ fetches' = [fetches EXCEPT ![p] =
                 [@ EXCEPT !.pc = "loop", !.todo = Tail(@),
                           !.stats.new_count = @ + 1]]
       \/ /\ transactions' = transactions
          /\ fetches' = [fetches EXCEPT ![p] =
                 [@ EXCEPT !.pc = "loop", !.todo = Tail(@),
                           !.stats.error_count = @ + 1]]
    /\ ImportFrame
    /\ UNCHANGED <<args, ret>>

\* after the loop: the balance updated, commit, return stats; the caller counts the
\* account's transactions again
FetchReturn(p) ==
    /\ fetches[p].pc = "loop"
    /\ fetches[p].todo = <<>>
    /\ ret' = [fn |-> "get_transactions_for_account", trigger |-> p, raised |-> FALSE,
               stats |-> fetches[p].stats, fetched |-> fetches[p].fetched,
               before |-> fetches[p].before,
               transactions_fetched |-> Len(transactions) - Len(fetches[p].before)]
    /\ fetches' = [fetches EXCEPT ![p] = IdleFetch(@.calls)]
    /\ ImportFrame
    /\ UNCHANGED <<transactions, args>>

NextImport ==
    \E p \in Triggers :
        \/ FetchStart(p)
        \/ FetchFails(p)
        \/ FetchCheck(p)
        \/ FetchInsert(p)
        \/ FetchReturn(p)

SpecImport == InitImport /\ [][NextImport]_vars

\* no two stored transactions have the same hibiscus_id
NoDuplicateIds ==
    \A i, j \in 1..Len(transactions) :
        i # j => transactions[i].hibiscus_id # transactions[j].hibiscus_id

\* a run of get_transactions_for_account has returned its stats
ImportReturned == ret # NoCall /\ ret.fn = "get_transactions_for_account" /\ ~ret.raised

\* C30: after any sequence of get_transactions_for_account runs, repeated, with
\* overlapping ranges, scheduled and manual, no two stored transactions have the same
\* hibiscus_id; a run leaves the records stored before it unchanged and counts every
\* fetched transaction as new, skipped or failed, a failure not stopping the others
C30_ImportIdempotent ==
    /\ NoDuplicateIds
    /\ ImportReturned =>
         /\ SubSeq(transactions, 1, Len(ret.before)) = ret.before
         /\ ret.stats.new_count + ret.stats.skipped_count + ret.stats.error_count
                = ret.fetched
====
